---- MODULE Spec2Model ----
(***************************************************************************)
(* A model of apod-wallpaper-rs: the image acquisition workflows of        *)
(* ApodClient (src/src/apod.rs) over a local cache folder and the remote   *)
(* APOD endpoint.                                                          *)
(*                                                                         *)
(* A calendar date (chrono::NaiveDate) is an integer day number counted    *)
(* from BaseYmd; a string is a sequence of one-character strings, so that  *)
(* formatting, parsing and prefix matching are computed, not assumed.      *)
(***************************************************************************)
EXTENDS Integers, Sequences, FiniteSets, TLC

\* ------------------------------------------------------------------ bounds

\* The last day number of the window of dates the inputs are drawn from.
MaxDay == 1

\* The largest `days` argument given to download_range.
MaxDays == 2

\* The number of operations run one after the other on the same folder.
MaxOps == 2

\* The calls a process makes on the desktop side.
MaxCalls == 3

\* The offsets main's acquisition loop may reach.
MaxOffset == 3

\* ---------------------------------------------------------------- calendar

\* Day number 0 of the model: a leap day, so that the window crosses a month
\* boundary and the day before it is the 28th.
BaseYmd == <<2024, 2, 29>>

IsLeap(y) == (y % 4 = 0 /\ y % 100 # 0) \/ (y % 400 = 0)

DaysInMonth(y, m) ==
    IF m = 2 THEN (IF IsLeap(y) THEN 29 ELSE 28)
    ELSE IF m \in {4, 6, 9, 11} THEN 30 ELSE 31

\* The calendar day after / before a (year, month, day).
SuccYmd(t) ==
    IF t[3] < DaysInMonth(t[1], t[2]) THEN <<t[1], t[2], t[3] + 1>>
    ELSE IF t[2] < 12 THEN <<t[1], t[2] + 1, 1>>
    ELSE <<t[1] + 1, 1, 1>>

PredYmd(t) ==
    IF t[3] > 1 THEN <<t[1], t[2], t[3] - 1>>
    ELSE IF t[2] > 1 THEN <<t[1], t[2] - 1, DaysInMonth(t[1], t[2] - 1)>>
    ELSE <<t[1] - 1, 12, 31>>

RECURSIVE Ymd(_)
\* The (year, month, day) of day number n.
Ymd(n) ==
    IF n = 0 THEN BaseYmd
    ELSE IF n > 0 THEN SuccYmd(Ymd(n - 1))
    ELSE PredYmd(Ymd(n + 1))

\* Every day number the workflows can reach: the window, the clock's local
\* date one day past it, and MaxDays + 1 days before it.
AllDays == (0 - (MaxDays + 2)) .. (MaxDay + 2)

\* The dates the remote source and the callers speak about.
Window == 0 .. MaxDay

\* ----------------------------------------------------------------- strings

Digits == <<"0", "1", "2", "3", "4", "5", "6", "7", "8", "9">>

DigitChar(k) == Digits[k + 1]

IsDigit(c) == \E k \in 1..10 : Digits[k] = c

DigitVal(c) == (CHOOSE k \in 1..10 : Digits[k] = c) - 1

Pad2(n) == <<DigitChar(n \div 10), DigitChar(n % 10)>>

Pad4(n) == <<DigitChar(n \div 1000), DigitChar((n \div 100) % 10),
             DigitChar((n \div 10) % 10), DigitChar(n % 10)>>

\* A (year, month, day) written YYYY-MM-DD.
Iso(t) == Pad4(t[1]) \o <<"-">> \o Pad2(t[2]) \o <<"-">> \o Pad2(t[3])

\* The `date` field of the remote's entry for day n, and the way a caller
\* writes day n on the command line.
IsoDate(n) == Iso(Ymd(n))

\* The format "%Y-%-m-%-d": month and day without zero padding.
Format_unpadded(n) ==
    LET t == Ymd(n)
        num(k) == IF k < 10 THEN <<DigitChar(k)>> ELSE Pad2(k)
    IN  Pad4(t[1]) \o <<"-">> \o num(t[2]) \o <<"-">> \o num(t[3])

\* date.format("%Y-%m-%d").to_string()
Format(n) == Iso(Ymd(n))

\* A comparison of the whole name where the prefix is meant.
starts_with_eq(s, p) == s = p

\* str::starts_with
starts_with(s, p) == Len(p) <= Len(s) /\ SubSeq(s, 1, Len(p)) = p

\* The length of the longest run of digits at the start of s, at most w.
RECURSIVE DigitRun(_, _)
DigitRun(s, w) ==
    IF w = 0 \/ s = <<>> \/ ~IsDigit(Head(s)) THEN 0
    ELSE 1 + DigitRun(Tail(s), w - 1)

RECURSIVE NumVal(_)
NumVal(s) == IF s = <<>> THEN 0 ELSE 10 * NumVal(SubSeq(s, 1, Len(s) - 1)) + DigitVal(s[Len(s)])

Drop(s, k) == SubSeq(s, k + 1, Len(s))

\* A Result<NaiveDate, ParseError> is a set as well: Err is {}, Ok(d) is {d}.
Invalid == {}

\* NaiveDate::parse_from_str(s, "%Y-%m-%d"): a year of 1 to 4 digits, a
\* month and a day of 1 or 2 digits (zero padding is optional on input),
\* separated by '-', nothing after the day, and a date of the calendar.
\* The result is Ok of the day number, or Invalid.
parse_from_str(s) ==
    LET ly == DigitRun(s, 4)
        s1 == Drop(s, ly)
        lm == IF s1 # <<>> /\ Head(s1) = "-" THEN DigitRun(Tail(s1), 2) ELSE 0
        s2 == IF lm > 0 THEN Drop(Tail(s1), lm) ELSE <<>>
        ld == IF s2 # <<>> /\ Head(s2) = "-" THEN DigitRun(Tail(s2), 2) ELSE 0
        s3 == IF ld > 0 THEN Drop(Tail(s2), ld) ELSE <<"?">>
        y == NumVal(SubSeq(s, 1, ly))
        m == NumVal(SubSeq(Tail(s1), 1, lm))
        d == NumVal(SubSeq(Tail(s2), 1, ld))
    IN  IF ly = 0 \/ lm = 0 \/ ld = 0 \/ s3 # <<>> THEN Invalid
        ELSE IF m < 1 \/ m > 12 THEN Invalid
        ELSE IF d < 1 \/ d > DaysInMonth(y, m) THEN Invalid
        ELSE IF \E n \in AllDays : Ymd(n) = <<y, m, d>>
             THEN {CHOOSE n \in AllDays : Ymd(n) = <<y, m, d>>}
             ELSE Invalid

\* ------------------------------------------------------- paths and options

\* Option<T> is a set with at most one element: None is {}, Some(v) is {v}.
None == {}

Some(v) == {v}

Jpg == <<"j", "p", "g">>

Jpeg == <<"j", "p", "e", "g">>

Png == <<"p", "n", "g">>

\* The index of the last '.' of s, 0 when there is none.
RECURSIVE LastDot(_)
LastDot(s) ==
    IF s = <<>> THEN 0
    ELSE IF s[Len(s)] = "." THEN Len(s)
    ELSE LastDot(SubSeq(s, 1, Len(s) - 1))

\* Path::extension of a file name or URL: the text after the last '.', None
\* when there is no '.' or the name only starts with one.
extension(s) ==
    IF LastDot(s) <= 1 THEN None ELSE Some(Drop(s, LastDot(s)))

Upper == <<"J", "P", "E", "G", "N", "I", "F", "H", "K", "D">>

Lower == <<"j", "p", "e", "g", "n", "i", "f", "h", "k", "d">>

LowerChar(c) ==
    IF \E k \in 1..Len(Upper) : Upper[k] = c
    THEN Lower[CHOOSE k \in 1..Len(Upper) : Upper[k] = c]
    ELSE c

\* str::to_lowercase
to_lowercase(s) == [k \in 1..Len(s) |-> LowerChar(s[k])]

\* format!("{}.{}", apod.date, image_ext), joined to the folder
FileName(date_str, ext) == date_str \o <<".">> \o ext

\* ------------------------------------------------------------ return values

\* Result<Option<PathBuf>> and Result<usize> in one shape: tag is "Ok", "Err"
\* or "Panic" (the thread unwinds out of the call), path the Option of an Ok,
\* count the usize of an Ok, kind the error of an Err.
OkPath(p) == [tag |-> "Ok", path |-> p, count |-> 0, kind |-> "-"]

OkCount(n) == [tag |-> "Ok", path |-> None, count |-> n, kind |-> "-"]

Err(k) == [tag |-> "Err", path |-> None, count |-> 0, kind |-> k]

Panic == [tag |-> "Panic", path |-> None, count |-> 0, kind |-> "unwrap"]

NoCall == [tag |-> "-", path |-> None, count |-> 0, kind |-> "-"]

\* Ok(()) of a Result<()>
OkUnit == [tag |-> "Ok", path |-> None, count |-> 0, kind |-> "-"]

\* ------------------------------------------------------------------ events

\* What a call does to the world outside the process, in order.
Ev(e, a) == [ev |-> e, arg |-> a]

Mkdir == Ev("mkdir", <<>>)

CountParam == <<"c", "o", "u", "n", "t", "=", "1">>

IsRequest(e) == e.ev \in {"get", "asset"}

\* ------------------------------------------------------------ local cache

\* A lookup of the one name <date>.jpg instead of a scan for the prefix.
get_local_image_for_date_jpg(fs, date) ==
    {f \in fs : f = FileName(Format(date), Jpg)}

\* ApodClient::get_local_image_for_date: the entries of the folder whose name
\* starts with the formatted date. The listing is unordered, so the call
\* returns Some of any one of them, and None exactly when there is none.
get_local_image_for_date(fs, date) ==
    {f \in fs : starts_with(f, Format(date))}

\* ApodClient::get_random_local_image: the entries whose extension is "jpg";
\* the call returns Some of any one of them, None when there is none.
get_random_local_image(fs) ==
    {f \in fs : extension(f) = Some(Jpg)}

\* ------------------------------------------------------------ remote source

HdUrl(ext) == <<"h", ".">> \o ext

StdUrl(ext) == <<"u", ".">> \o ext

\* The remote's answer to one metadata request and to the asset request that
\* may follow it: whether the request got through, the HTTP status, whether
\* the body decodes, the ApodResponse fields the code reads, whether the
\* asset arrives, whether the disk takes the file, and what becomes of
\* exiftool: "ok" (ran, exit 0), "nonzero" (ran, other exit), "missing"
\* (`which` finds none) or "nostart" (found, but the process fails to start).
GoodResp(ds) ==
    [send |-> "ok", status |-> 200, body |-> "ok", media_type |-> "image",
     date |-> ds, hd_url |-> Some(HdUrl(Jpg)), url |-> Some(StdUrl(Png)),
     asset |-> "ok", write |-> "ok", exif |-> "ok"]

\* No metadata request has been answered.
NoResp == [GoodResp(<<>>) EXCEPT !.send = "-"]

\* The answers the workflows are run against, for a response dated ds: the
\* good one (an hdurl and a url), and one for each way download_single_image
\* can end.
RespsFor(ds) ==
    LET g == GoodResp(ds) IN
    { g,
      [g EXCEPT !.hd_url = None],
      [g EXCEPT !.send = "err"],
      [g EXCEPT !.status = 403],
      [g EXCEPT !.status = 404],
      [g EXCEPT !.status = 500],
      [g EXCEPT !.media_type = "video"],
      [g EXCEPT !.url = None],
      [g EXCEPT !.hd_url = None, !.url = Some(StdUrl(<<"G", "I", "F">>))] }

\* The remote answers a request for a date with that date's entry, and a
\* count=1 request with the entry of any date.
Responses(target_date, random) ==
    IF random THEN UNION {RespsFor(IsoDate(d)) : d \in Window}
    ELSE UNION {RespsFor(IsoDate(d)) : d \in target_date}

\* ---------------------------------------------------------------- fetching

\* ApodClient::add_exif_metadata, by what becomes of exiftool: an error only
\* when the tool ran and exited non-zero.
add_exif_metadata(exiftool) ==
    IF exiftool = "missing" THEN OkUnit
    ELSE IF exiftool = "ok" THEN OkUnit
    ELSE IF exiftool = "nonzero" THEN Err("DesktopEnv")
    ELSE OkUnit

\* The exiftool process, when one ran on the written file.
exif_io(exiftool, file_path) ==
    IF exiftool \in {"ok", "nonzero"} THEN <<Ev("exif", file_path)>> ELSE <<>>

\* StatusCode::is_success
is_success(status) == status >= 200 /\ status < 300

\* A mapping that treats 404 like any other failure status.
status_result_404_err(status) ==
    IF status = 403 THEN Err("Api:RateLimit") ELSE Err("Api:Http")

\* What download_single_image returns for a status that is no success.
status_result(status) ==
    IF status = 403 THEN Err("Api:RateLimit")
    ELSE IF status = 404 THEN OkPath(None)
    ELSE Err("Api:Http")

\* A check that only knows videos.
not_image_video_only(media_type) == media_type = "video"

\* apod_data[0].media_type != "image"
not_image(media_type) == media_type # "image"

\* A caller that hands the metadata tool's error on with `?`.
exif_propagated(e, v) == IF e.tag = "Err" THEN e ELSE v

\* if let Err(e) = self.add_exif_metadata(..) { eprintln!(..) }: the error
\* is printed and dropped, and the function goes on to return v.
exif_warned(e, v) == v

\* ApodClient::download_single_image against the answer r: the value
\* returned, the folder afterwards and the requests and writes made.
download_single_image(fs, target_date, random, r) ==
    LET q == IF random THEN CountParam
             ELSE IF target_date # None THEN Format(CHOOSE d \in target_date : TRUE)
             ELSE <<>>
        get == Ev("get", q)
        out(v, f, e) == [ret |-> v, files |-> f, io |-> e]
        has_url == r.url # None
        image_url == IF r.hd_url # None THEN CHOOSE u \in r.hd_url : TRUE
                     ELSE CHOOSE u \in r.url : TRUE
        e0 == extension(image_url)
        image_ext == to_lowercase(IF e0 # None THEN CHOOSE e \in e0 : TRUE ELSE Jpg)
        file_path == FileName(r.date, image_ext)
    IN  IF r.send = "err" THEN out(Err("Network"), fs, <<get>>)
        ELSE IF ~is_success(r.status) THEN out(status_result(r.status), fs, <<get>>)
        ELSE IF r.body = "bad" \/ (r.body = "empty" /\ ~random)
            THEN out(Err("Network"), fs, <<get>>)
        ELSE IF r.body = "empty" \/ not_image(r.media_type)
            THEN out(OkPath(None), fs, <<get>>)
        ELSE IF ~has_url THEN out(Panic, fs, <<get>>)
        ELSE IF image_ext \notin {Jpg, Jpeg, Png}
            THEN out(Err("Api:Unsupported"), fs, <<get>>)
        ELSE IF r.asset = "err"
            THEN out(Err("Network"), fs, <<get, Ev("asset", image_url)>>)
        ELSE IF r.write = "err"
            THEN out(Err("Io"), fs, <<get, Ev("asset", image_url)>>)
        ELSE out(exif_warned(add_exif_metadata(r.exif), OkPath(Some(file_path))),
                 fs \cup {file_path},
                 <<get, Ev("asset", image_url), Ev("write", file_path)>>
                     \o exif_io(r.exif, file_path))

\* ------------------------------------------------------------------- clock

\* The hour (UTC) before which the remote has not yet published the day.
CutoverHour == 5

\* An instant: the UTC date, the UTC hour and the local zone's offset in
\* hours. The instants the calls are made at: before and after the cutover
\* in UTC's own zone, and late in the UTC day in a zone whose local date is
\* already the next one.
Clock(day, hour, tz) == [day |-> day, hour |-> hour, tz |-> tz]

Clocks ==
    {Clock(MaxDay, 4, 0), Clock(MaxDay, 5, 0), Clock(MaxDay, 23, 14)}

\* Utc::now().naive_utc().date()
UtcDate(now) == now.day

\* Local::now().naive_local().date()
LocalDate(now) == now.day + ((now.hour + now.tz) \div 24)

\* A target date that also steps back at the cutover hour itself.
target_date_of_through_cutover(now, date_offset) ==
    LET offset == IF now.hour <= CutoverHour THEN date_offset + 1 ELSE date_offset
    IN  UtcDate(now) - offset

\* get_image's target date for random = false
target_date_of(now, date_offset) ==
    LET offset == IF now.hour < CutoverHour THEN date_offset + 1 ELSE date_offset
    IN  UtcDate(now) - offset

\* download_range's `start`
range_start(now) ==
    IF now.hour < CutoverHour THEN LocalDate(now) - 1 ELSE LocalDate(now)

\* ------------------------------------------------------------------- state

VARIABLES
    folderExists,  \* whether the save folder exists
    files,         \* the names of the folder's entries
    pc,            \* "idle", the workflow whose loop is running, or "done"
    call,          \* the call being run, or the last one run: its arguments
    loc,           \* the running workflow's locals
    last,          \* what the call's last download_single_image returned
    ret,           \* what the last finished call returned
    io,            \* the call's requests, listings and writes so far, in order
    reported,      \* the dates a date workflow has reported as downloaded
    nops,          \* the number of calls started
    resp,          \* the remote's answer to the call's last metadata request
    manager,       \* the WallpaperManager in use: "hyprland" or "plasma"
    tools,         \* WALLPAPER_TOOLS: the tools the Hyprland manager found
    procs,         \* the processes the desktop call has launched, in order
    host,          \* the machine: environment variables and installed commands
    probes,        \* what each run of WallpaperTools::new found, in order
    wrun,          \* the locals of main's wallpaper run
    tray,          \* the tray applet: its cached tooltip and its last answer
    gui            \* the switcher window: WallpaperSwitcher's fields

vars ==
    <<folderExists, files, pc, call, loc, last, ret, io, reported, nops,
      resp, manager, tools, procs, host, probes, wrun, tray, gui>>

\* The state of the desktop side, which the acquisition calls leave alone.
desktop == <<manager, tools, procs, host, probes>>

NoClock == Clock(0, 0, 0)

\* WallpaperTools: which of the three tools `which` found.
Tools(hyprpaper, swww, swaybg) ==
    [has_hyprpaper |-> hyprpaper, has_swww |-> swww, has_swaybg |-> swaybg]

\* WALLPAPER_TOOLS before any manager has initialised it.
NoTools == Tools(FALSE, FALSE, FALSE)

\* The machine the process runs on: XDG_CURRENT_DESKTOP (empty when unset),
\* whether HYPRLAND_INSTANCE_SIGNATURE and KDE_SESSION_VERSION are set, and
\* the commands `which` finds.
Env(xdg, hypr_sig, kde_session, installed) ==
    [desktop |-> xdg, hypr_sig |-> hypr_sig, kde_session |-> kde_session,
     installed |-> installed]

NoEnv == Env(<<>>, FALSE, FALSE, {})

\* main is not in its wallpaper run.
\* The command line's flags, and the flags of the configuration file.
Args(multi_monitor, random, use_config, pywal, wallust) ==
    [multi_monitor |-> multi_monitor, random |-> random, use_config |-> use_config,
     pywal |-> pywal, wallust |-> wallust]

Config(multi_monitor, random, pywal, wallust) ==
    [multi_monitor |-> multi_monitor, random |-> random, pywal |-> pywal,
     wallust |-> wallust]

\* WallpaperConfig::default()
DefaultConfig == Config(FALSE, FALSE, FALSE, FALSE)

\* The tray applet before its first tooltip: no cached entry; `age` is the
\* cached entry's cached_at.elapsed() in seconds, `out` the tooltip the call
\* just made returned, `refreshed` whether that call rebuilt the entry.
NoTray == [cache |-> None, age |-> 0, out |-> None, refreshed |-> FALSE]

\* The switcher window before WallpaperSwitcher::new. Beside the fields of
\* WallpaperSwitcher: `at` is where the window is, `tasks` the paths whose
\* thumbnail task is running, `produced` what the finished tasks returned,
\* `selected` the path handed to set_wallpaper, `last` the message handled last.
NoGui ==
    [at |-> "-", images |-> <<>>, images_per_row |-> 1, hovered_image |-> None,
     show_theme_selector |-> FALSE, show_top_bar |-> FALSE, theme |-> "Dark",
     tasks |-> {}, produced |-> {}, selected |-> None,
     last |-> [type |-> "-", arg |-> ""]]

\* main's wallpaper run: where it stands, its arguments and locals, the
\* calls it has made with their results, and what it returned.
NoRun ==
    [at |-> "-",
     args |-> Args(FALSE, FALSE, FALSE, FALSE, FALSE),
     config |-> DefaultConfig,
     now |-> NoClock,
     screens |-> <<>>,
     image_paths |-> <<>>,
     offset |-> 0,
     i |-> 0,
     log |-> <<>>,
     result |-> NoCall]

Call(name, random, n, s1, s2, now) ==
    [name |-> name, random |-> random, n |-> n, s1 |-> s1, s2 |-> s2, now |-> now]

Loc(start, end_date, i, count) ==
    [start |-> start, end_date |-> end_date, i |-> i, downloaded_count |-> count]

NoLoc == Loc(0, 0, 0, 0)

\* No call has been made in this invocation yet.
NoCallYet == Call("none", FALSE, 0, <<>>, <<>>, NoClock)

InitExts == {Jpg, Png}

\* A folder the program may find: missing, empty, or holding one file named
\* after a date (an image of the cache, or a file a user put there).
InitNames ==
    {FileName(IsoDate(d), e) : d \in Window, e \in InitExts}
        \cup {IsoDate(0) \o <<"_", "v", "2", ".", "j", "p", "g">>}

\* The acquisition side before any call.
InitFolder ==
    /\ folderExists \in BOOLEAN
    /\ files \in IF folderExists THEN {{}} \cup {{n} : n \in InitNames} ELSE {{}}
    /\ pc = "idle"
    /\ call = NoCallYet
    /\ loc = NoLoc
    /\ last = NoCall
    /\ ret = NoCall
    /\ io = <<>>
    /\ reported = {}
    /\ nops = 0
    /\ resp = NoResp

\* No wallpaper manager has been constructed.
Init ==
    /\ InitFolder
    /\ manager = "none"
    /\ tools = NoTools
    /\ procs = <<>>
    /\ host = NoEnv
    /\ probes = <<>>
    /\ wrun = NoRun
    /\ tray = NoTray
    /\ gui = NoGui

\* if !folder.exists() { fs::create_dir_all(folder)? }
create_dir == IF folderExists THEN <<>> ELSE <<Mkdir>>

Lookup(date) == Ev("list", Format(date))

\* The date strings callers pass: each date of the window as YYYY-MM-DD, one
\* without zero padding, and strings that are no date.
DateStrings ==
    {IsoDate(d) : d \in Window}
        \cup { <<"2", "0", "2", "4", "-", "3", "-", "1">>,
               <<"2", "0", "2", "4", "-", "0", "2", "-", "3", "0">>,
               <<"2", "0", "2", "4", "0", "2", "2", "9">> }

\* ------------------------------------------------------------- get_image

\* ApodClient::get_image(folder, random, Some(date_offset)) at instant now.
GetImage(random, date_offset, now) ==
    LET target_date == IF random THEN None
                       ELSE Some(target_date_of(now, date_offset))
        local == IF random THEN get_random_local_image(files)
                 ELSE get_local_image_for_date(files, target_date_of(now, date_offset))
        list == IF random THEN Ev("list", <<>>)
                ELSE Lookup(target_date_of(now, date_offset))
    IN  /\ pc = "idle"
        /\ nops < MaxOps
        /\ nops' = nops + 1
        /\ UNCHANGED <<desktop, wrun, tray, gui>>
        /\ call' = Call("get_image", random, date_offset, <<>>, <<>>, now)
        /\ folderExists' = TRUE
        /\ loc' = NoLoc
        /\ pc' = "done"
        /\ reported' = reported
        /\ IF local # None
           THEN /\ \E p \in local : ret' = OkPath(Some(p))
                /\ last' = NoCall
                /\ resp' = NoResp
                /\ files' = files
                /\ io' = create_dir \o <<list>>
           ELSE \E r \in Responses(target_date, random) :
                LET d == download_single_image(files, target_date, random, r) IN
                /\ ret' = d.ret
                /\ last' = d.ret
                /\ resp' = r
                /\ files' = d.files
                /\ io' = create_dir \o <<list>> \o d.io

\* -------------------------------------------------- download_specific_date

\* A count of every Ok, an Ok(None) included.
Counted_any_ok(v) == IF v.tag = "Ok" THEN 1 ELSE 0

\* What the date workflows make of download_single_image's result for one
\* date: the count it adds.
Counted(v) == IF v.tag = "Ok" /\ v.path # None THEN 1 ELSE 0

\* A `match` whose Err arm logs the error and returns Ok(0).
specific_result_swallow(v) == OkCount(Counted(v))

\* download_specific_date's `match` on download_single_image's result:
\* Ok(1), Ok(0), or the error handed on to the caller.
specific_result(v) == IF v.tag = "Ok" THEN OkCount(Counted(v)) ELSE v

\* ApodClient::download_specific_date(folder, date_str).
DownloadSpecificDate(date_str) ==
    LET parsed == parse_from_str(date_str)
        date == CHOOSE n \in parsed : TRUE
    IN  /\ pc = "idle"
        /\ nops < MaxOps
        /\ nops' = nops + 1
        /\ UNCHANGED <<desktop, wrun, tray, gui>>
        /\ call' = Call("download_specific_date", FALSE, 0, date_str, <<>>, NoClock)
        /\ loc' = NoLoc
        /\ pc' = "done"
        /\ IF parsed = Invalid
           THEN /\ ret' = Err("Api:InvalidDate")
                /\ last' = NoCall
                /\ resp' = NoResp
                /\ io' = <<>>
                /\ UNCHANGED <<folderExists, files, reported>>
           ELSE /\ folderExists' = TRUE
                /\ IF get_local_image_for_date(files, date) # None
                   THEN /\ ret' = OkCount(0)
                        /\ last' = NoCall
                        /\ resp' = NoResp
                        /\ io' = create_dir \o <<Lookup(date)>>
                        /\ UNCHANGED <<files, reported>>
                   ELSE \E r \in Responses(Some(date), FALSE) :
                        LET d == download_single_image(files, Some(date), FALSE, r) IN
                        /\ ret' = specific_result(d.ret)
                        /\ last' = d.ret
                        /\ resp' = r
                        /\ files' = d.files
                        /\ io' = create_dir \o <<Lookup(date)>> \o d.io
                        /\ reported' = IF Counted(d.ret) = 1
                                       THEN reported \cup {date} ELSE reported

\* ---------------------------------------------------------- download_range

\* ApodClient::download_range(folder, days) at instant now, up to its loop.
StartRange(days, now) ==
    /\ pc = "idle"
    /\ nops < MaxOps
    /\ nops' = nops + 1
    /\ UNCHANGED <<desktop, wrun, tray, gui>>
    /\ call' = Call("download_range", FALSE, days, <<>>, <<>>, now)
    /\ folderExists' = TRUE
    /\ io' = create_dir
    /\ loc' = Loc(range_start(now), 0, 0, 0)
    /\ last' = NoCall
    /\ resp' = NoResp
    /\ pc' = "range"
    /\ UNCHANGED <<files, ret, reported>>

\* A loop that hands an Err to its caller with `?`.
loop_continues_ok_only(v) == v.tag = "Ok"

\* The loops' `match` on download_single_image's result: every arm, Err
\* included, falls through to the next date; only a panic leaves the loop.
loop_continues(v) == v.tag # "Panic"

\* One date of a workflow's loop: skipped when the folder resolves it, else
\* fetched; i2 is the loop variable afterwards.
VisitDate(date, i2) ==
    /\ UNCHANGED <<folderExists, call, nops, desktop, wrun, tray, gui>>
    /\ IF get_local_image_for_date(files, date) # None
       THEN /\ io' = Append(io, Lookup(date))
            /\ loc' = [loc EXCEPT !.i = i2]
            /\ last' = NoCall
            /\ resp' = NoResp
            /\ UNCHANGED <<files, pc, ret, reported>>
       ELSE \E r \in Responses(Some(date), FALSE) :
            LET d == download_single_image(files, Some(date), FALSE, r) IN
            /\ io' = Append(io, Lookup(date)) \o d.io
            /\ files' = d.files
            /\ last' = d.ret
            /\ resp' = r
            /\ IF ~loop_continues(d.ret)
               THEN /\ pc' = "done"
                    /\ ret' = d.ret
                    /\ UNCHANGED <<loc, reported>>
               ELSE /\ loc' = [loc EXCEPT !.i = i2,
                                   !.downloaded_count = @ + Counted(d.ret)]
                    /\ reported' = IF Counted(d.ret) = 1
                                   THEN reported \cup {date} ELSE reported
                    /\ UNCHANGED <<pc, ret>>

\* One iteration of `for day_offset in 0..days`.
RangeStep ==
    /\ pc = "range"
    /\ loc.i < call.n
    /\ VisitDate(loc.start - loc.i, loc.i + 1)

\* The loop is exhausted: Ok(downloaded_count).
RangeReturn ==
    /\ pc = "range"
    /\ ~(loc.i < call.n)
    /\ pc' = "done"
    /\ ret' = OkCount(loc.downloaded_count)
    /\ UNCHANGED <<folderExists, files, call, loc, last, io, reported, nops, resp, desktop, wrun, tray, gui>>

\* ----------------------------------------------------- download_date_range

\* A validation that forgets to compare the two dates.
span_check_no_order(start_res, end_res) ==
    IF start_res = Invalid \/ end_res = Invalid THEN "Api:InvalidDate" ELSE "ok"

\* download_date_range's validation of its two parsed arguments, in the
\* code's order: the error it returns, or "ok".
span_check(start_res, end_res) ==
    IF start_res = Invalid THEN "Api:InvalidDate"
    ELSE IF end_res = Invalid THEN "Api:InvalidDate"
    ELSE IF (CHOOSE n \in start_res : TRUE) > (CHOOSE n \in end_res : TRUE)
        THEN "Api:InvalidRange"
    ELSE "ok"

\* A loop that stops one day early.
span_continues_lt(current_date, end_date) == current_date < end_date

\* while current_date <= end_date
span_continues(current_date, end_date) == current_date <= end_date

\* ApodClient::download_date_range(folder, start_str, end_str), up to its loop.
StartSpan(start_str, end_str) ==
    LET start_res == parse_from_str(start_str)
        end_res == parse_from_str(end_str)
        start_date == CHOOSE n \in start_res : TRUE
        end_date == CHOOSE n \in end_res : TRUE
        fail(k) == /\ ret' = Err(k)
                   /\ pc' = "done"
                   /\ io' = <<>>
                   /\ loc' = NoLoc
                   /\ UNCHANGED folderExists
    IN  /\ pc = "idle"
        /\ nops < MaxOps
        /\ nops' = nops + 1
        /\ UNCHANGED <<desktop, wrun, tray, gui>>
        /\ call' = Call("download_date_range", FALSE, 0, start_str, end_str, NoClock)
        /\ last' = NoCall
        /\ resp' = NoResp
        /\ UNCHANGED <<files, reported>>
        /\ IF span_check(start_res, end_res) # "ok"
           THEN fail(span_check(start_res, end_res))
           ELSE /\ folderExists' = TRUE
                /\ io' = create_dir
                /\ loc' = Loc(start_date, end_date, start_date, 0)
                /\ pc' = "span"
                /\ UNCHANGED ret

\* One iteration of `while current_date <= end_date`.
SpanStep ==
    /\ pc = "span"
    /\ span_continues(loc.i, loc.end_date)
    /\ VisitDate(loc.i, loc.i + 1)

\* The loop is exhausted: Ok(downloaded_count).
SpanReturn ==
    /\ pc = "span"
    /\ ~span_continues(loc.i, loc.end_date)
    /\ pc' = "done"
    /\ ret' = OkCount(loc.downloaded_count)
    /\ UNCHANGED <<folderExists, files, call, loc, last, io, reported, nops, resp, desktop, wrun, tray, gui>>

\* ------------------------------------------------------------------- exit

\* The call has returned (or unwound) and the invocation is over: nothing of
\* it remains but the folder.
Exit ==
    /\ pc = "done"
    /\ pc' = "idle"
    /\ call' = NoCallYet
    /\ loc' = NoLoc
    /\ last' = NoCall
    /\ resp' = NoResp
    /\ ret' = NoCall
    /\ io' = <<>>
    /\ procs' = <<>>
    /\ UNCHANGED <<folderExists, files, reported, nops, manager, tools, host, probes, wrun, tray, gui>>

\* ------------------------------------------- the workflows at their awaits

\* `self.client.get(..).send()`: the request e is handed to the client.
Issue(e) == Ev("send", e)

\* The request's future has resolved: the response was read, or it failed.
Settle(e) == Ev("recv", e)

\* A request whose future is dropped into the background: the task goes on
\* at `resume`.
detached(point, resume) == resume

\* `.await`: the task is suspended at `point` until the request's future
\* resolves, and runs nothing else meanwhile.
awaiting(point, resume) == point

\* Where the running workflow goes on after a date.
LoopPc ==
    IF call.name = "download_range" THEN "range"
    ELSE IF call.name = "download_date_range" THEN "span"
    ELSE "get_image"

\* The date the running workflow is at.
Target ==
    IF call.name = "download_range" THEN Some(loc.start - loc.i)
    ELSE IF call.name = "download_date_range" THEN Some(loc.i)
    ELSE IF call.random THEN None
    ELSE Some(target_date_of(call.now, call.n))

AtDate ==
    \/ pc = "range" /\ loc.i < call.n
    \/ pc = "span" /\ span_continues(loc.i, loc.end_date)
    \/ pc = "get_image"

\* get_image up to its lookup.
AwaitGetImage(random, date_offset, now) ==
    /\ pc = "idle"
    /\ nops < MaxOps
    /\ nops' = nops + 1
    /\ call' = Call("get_image", random, date_offset, <<>>, <<>>, now)
    /\ folderExists' = TRUE
    /\ io' = create_dir
    /\ loc' = NoLoc
    /\ last' = NoCall
    /\ resp' = NoResp
    /\ pc' = "get_image"
    /\ UNCHANGED <<files, ret, reported, desktop, wrun, tray, gui>>

FolderLookup ==
    IF call.name = "get_image" /\ call.random THEN Ev("list", <<>>)
    ELSE Lookup(CHOOSE d \in Target : TRUE)

LocalImage ==
    IF call.name = "get_image" /\ call.random THEN get_random_local_image(files)
    ELSE get_local_image_for_date(files, CHOOSE d \in Target : TRUE)

\* The folder resolves the date: no request.
LocalHit ==
    /\ AtDate
    /\ LocalImage # None
    /\ io' = Append(io, FolderLookup)
    /\ last' = NoCall
    /\ resp' = NoResp
    /\ IF call.name = "get_image"
       THEN /\ pc' = "done"
            /\ \E p \in LocalImage : ret' = OkPath(Some(p))
            /\ UNCHANGED loc
       ELSE /\ loc' = [loc EXCEPT !.i = @ + 1]
            /\ UNCHANGED <<pc, ret>>
    /\ UNCHANGED <<folderExists, files, call, nops, reported, desktop, wrun, tray, gui>>

\* download_single_image up to `self.client.get(&url).send().await`.
IssueMetadata ==
    /\ AtDate
    /\ LocalImage = None
    /\ io' = io \o <<FolderLookup,
                      Issue(download_single_image(files, Target, call.random, NoResp).io[1])>>
    /\ pc' = awaiting("await_metadata", pc)
    /\ UNCHANGED <<folderExists, files, call, loc, last, ret, reported, nops, resp,
                   desktop, wrun, tray, gui>>

\* download_single_image has returned d for the answer r: the match arms of
\* the loops, or get_image's return.
DateDone(d, r) ==
    /\ files' = d.files
    /\ last' = d.ret
    /\ resp' = r
    /\ UNCHANGED <<folderExists, call, nops, desktop, wrun, tray, gui>>
    /\ IF call.name = "get_image" \/ ~loop_continues(d.ret)
       THEN /\ pc' = "done"
            /\ ret' = d.ret
            /\ UNCHANGED <<loc, reported>>
       ELSE /\ pc' = LoopPc
            /\ loc' = [loc EXCEPT !.i = @ + 1,
                                   !.downloaded_count = @ + Counted(d.ret)]
            /\ reported' = IF Counted(d.ret) = 1
                           THEN reported \cup Target ELSE reported
            /\ UNCHANGED ret

\* The metadata request resolves; with an image to fetch the task goes on
\* to `self.client.get(image_url).send().await`.
SettleMetadata ==
    /\ pc = "await_metadata"
    /\ \E r \in Responses(Target, call.random) :
        LET d == download_single_image(files, Target, call.random, r) IN
        IF Len(d.io) >= 2
        THEN /\ io' = io \o <<Settle(d.io[1]), Issue(d.io[2])>>
             /\ resp' = r
             /\ pc' = awaiting("await_asset", LoopPc)
             /\ UNCHANGED <<folderExists, files, call, loc, last, ret, reported, nops,
                            desktop, wrun, tray, gui>>
        ELSE /\ io' = Append(io, Settle(d.io[1]))
             /\ DateDone(d, r)

\* The image request resolves: the file is written, or the error returned.
SettleAsset ==
    /\ pc = "await_asset"
    /\ LET d == download_single_image(files, Target, call.random, resp) IN
        /\ io' = Append(io, Settle(d.io[2])) \o SubSeq(d.io, 3, Len(d.io))
        /\ DateDone(d, resp)

AwaitNext ==
    \/ \E random \in BOOLEAN, date_offset \in 0..1, now \in Clocks :
          AwaitGetImage(random, date_offset, now)
    \/ \E days \in 0..MaxDays, now \in Clocks : StartRange(days, now)
    \/ \E start_str \in DateStrings, end_str \in DateStrings : StartSpan(start_str, end_str)
    \/ LocalHit
    \/ IssueMetadata
    \/ SettleMetadata
    \/ SettleAsset
    \/ RangeReturn
    \/ SpanReturn
    \/ Exit

AwaitSpec == Init /\ [][AwaitNext]_vars

\* ----------------------------------------------------------- specification

Next ==
    \/ \E random \in BOOLEAN, date_offset \in 0..1, now \in Clocks :
          GetImage(random, date_offset, now)
    \/ \E date_str \in DateStrings : DownloadSpecificDate(date_str)
    \/ \E days \in 0..MaxDays, now \in Clocks : StartRange(days, now)
    \/ RangeStep
    \/ RangeReturn
    \/ \E start_str \in DateStrings, end_str \in DateStrings : StartSpan(start_str, end_str)
    \/ SpanStep
    \/ SpanReturn
    \/ Exit

Spec == Init /\ [][Next]_vars

\* ------------------------------------------------- the fetch on its own

\* The values the remote may give the two URL fields: absent, a supported
\* extension in either case, an unsupported one, and a URL without one.
HdUrls ==
    {None, Some(HdUrl(Jpg)), Some(HdUrl(<<"J", "P", "G">>)),
     Some(HdUrl(<<"g", "i", "f">>)), Some(<<"h">>)}

Urls ==
    {None, Some(StdUrl(Png)), Some(StdUrl(Jpeg)), Some(StdUrl(<<"G", "I", "F">>))}

Statuses == {200, 204, 301, 403, 404, 500}

MediaTypes == {"image", "video", "other"}

Exifs == {"ok", "nonzero", "missing", "nostart"}

\* Every answer download_single_image is run against on its own, for a
\* response dated ds: the URL fields and exiftool's fate in all combinations,
\* every status and media type with and without URLs, and each failure of a
\* request, of the decoding and of the disk.
FetchRespsFor(ds) ==
    LET g == GoodResp(ds) IN
    {[g EXCEPT !.hd_url = h, !.url = u, !.exif = x] :
        h \in HdUrls, u \in Urls, x \in Exifs}
    \cup {[g EXCEPT !.status = st, !.media_type = m, !.hd_url = h] :
        st \in Statuses, m \in MediaTypes, h \in {None, Some(HdUrl(Jpg))}}
    \cup {[g EXCEPT !.media_type = m, !.hd_url = h, !.url = u] :
        m \in MediaTypes, h \in HdUrls, u \in Urls}
    \cup {[g EXCEPT !.send = "err"], [g EXCEPT !.body = "bad"],
          [g EXCEPT !.body = "empty"], [g EXCEPT !.asset = "err"],
          [g EXCEPT !.write = "err"]}

FetchResponses(target_date, random) ==
    IF random THEN UNION {FetchRespsFor(IsoDate(d)) : d \in Window}
    ELSE UNION {FetchRespsFor(IsoDate(d)) : d \in target_date}

\* One call of download_single_image as get_image and the date workflows
\* make it, after their lookup found nothing: (None, true) or (Some(date),
\* false), in a folder that exists.
DownloadSingleImage(target_date, random) ==
    /\ pc = "idle"
    /\ nops < MaxOps
    /\ nops' = nops + 1
    /\ UNCHANGED <<desktop, wrun, tray, gui>>
    /\ call' = Call("download_single_image", random, 0, <<>>, <<>>, NoClock)
    /\ loc' = NoLoc
    /\ pc' = "done"
    /\ UNCHANGED <<folderExists, reported>>
    /\ \E r \in FetchResponses(target_date, random) :
        LET d == download_single_image(files, target_date, random, r) IN
        /\ ret' = d.ret
        /\ last' = d.ret
        /\ resp' = r
        /\ files' = d.files
        /\ io' = d.io

FetchInit == Init /\ folderExists

FetchNext ==
    \/ DownloadSingleImage(None, TRUE)
    \/ \E date \in Window : DownloadSingleImage(Some(date), FALSE)
    \/ Exit

FetchSpec == FetchInit /\ [][FetchNext]_vars

\* ------------------------------------------------------------ the desktop

\* What becomes of a process the program launches: it cannot be launched
\* ("nolaunch"), it runs and exits with status 0 or another status, or (a
\* spawned process nobody waits for) it is still running; out is what it
\* printed.
Run(outcome, out) == [outcome |-> outcome, out |-> out]

\* One launched process: the tool it was launched for, by Command::output
\* (waited for) or Command::spawn (not waited for), and what became of it.
Proc(tool, how, run) ==
    [tool |-> tool, how |-> how, outcome |-> run.outcome, out |-> run.out]

Done(v, launched) == [ret |-> v, procs |-> launched]

\* A caller of Command::output that takes a non-zero exit for an error to
\* return at once.
output_step_fail_fast(run) == IF run.outcome = "exit0" THEN "ok" ELSE "err"

\* `let output = Command::new(..).output()?; if output.status.success()`:
\* the launch error leaves the function through `?` ("err"), exit status 0
\* returns Ok ("ok"), any other status falls through to the next block.
output_step(run) ==
    IF run.outcome = "nolaunch" THEN "err"
    ELSE IF run.outcome = "exit0" THEN "ok"
    ELSE "next"

\* `let output = Command::new("swaybg")..spawn(); if output.is_ok()`: Ok as
\* soon as the process has started, whatever it goes on to do.
spawn_step(run) == IF run.outcome = "nolaunch" THEN "next" ELSE "ok"

\* HyprlandManager::set_wallpaper with the capability set t, where env gives
\* what becomes of each tool's process if it is launched: the value returned
\* and the processes launched, in order.
hyprland_set_wallpaper(t, env) ==
    LET hyprpaper == Proc("hyprpaper", "output", env.hyprpaper)
        swww == Proc("swww", "output", env.swww)
        swaybg == Proc("swaybg", "spawn", env.swaybg)
        b3 == IF ~t.has_swaybg THEN Done(Err("DesktopEnv"), <<>>)
              ELSE IF spawn_step(env.swaybg) = "ok" THEN Done(OkUnit, <<swaybg>>)
              ELSE Done(Err("DesktopEnv"), <<swaybg>>)
        b2 == IF ~t.has_swww THEN b3
              ELSE IF output_step(env.swww) = "err" THEN Done(Err("Io"), <<swww>>)
              ELSE IF output_step(env.swww) = "ok" THEN Done(OkUnit, <<swww>>)
              ELSE Done(b3.ret, <<swww>> \o b3.procs)
    IN  IF ~t.has_hyprpaper THEN b2
        ELSE IF output_step(env.hyprpaper) = "err" THEN Done(Err("Io"), <<hyprpaper>>)
        ELSE IF output_step(env.hyprpaper) = "ok" THEN Done(OkUnit, <<hyprpaper>>)
        ELSE Done(b2.ret, <<hyprpaper>> \o b2.procs)

\* PlasmaManager::set_wallpaper: one qdbus script run by sh.
plasma_set_wallpaper(run) ==
    LET qdbus == Proc("qdbus", "output", run)
    IN  IF run.outcome = "nolaunch" THEN Done(Err("Io"), <<qdbus>>)
        ELSE IF run.outcome # "exit0" THEN Done(Err("DesktopEnv"), <<qdbus>>)
        ELSE Done(OkUnit, <<qdbus>>)

Whitespace == {" ", "\n"}

\* str::trim
RECURSIVE trim(_)
trim(s) ==
    IF s = <<>> THEN s
    ELSE IF Head(s) \in Whitespace THEN trim(Tail(s))
    ELSE IF s[Len(s)] \in Whitespace THEN trim(SubSeq(s, 1, Len(s) - 1))
    ELSE s

\* One line of `swww query`: the output's name, then "image: " and a path
\* (image is empty when the line has no "image: ").
Line(name, image) == [name |-> name, image |-> image]

\* get_wallpaper's loop over the lines of `swww query`: the path of the
\* first line that starts with the screen's name, letter case aside (of the
\* first line at all when no screen is given) and has a non-empty path
\* after "image: ".
RECURSIVE swww_path(_, _)
swww_path(lines, screen) ==
    IF lines = <<>> THEN None
    ELSE LET line == Head(lines)
             skip == /\ screen # None
                     /\ ~starts_with(to_lowercase(line.name),
                                     to_lowercase(CHOOSE n \in screen : TRUE))
         IN  IF ~skip /\ trim(line.image) # <<>> THEN Some(trim(line.image))
             ELSE swww_path(Tail(lines), screen)

\* HyprlandManager::get_wallpaper with the capability set t for the given
\* screen, where env gives what becomes of `hyprctl hyprpaper wallpaper` and
\* of `swww query` if they are launched.
hyprland_get_wallpaper(t, screen, env) ==
    LET hyprpaper == Proc("hyprpaper", "output", env.hyprpaper)
        swww == Proc("swww", "output", env.swww)
        b3 == IF t.has_swaybg THEN Done(OkPath(None), <<>>)
              ELSE Done(Err("DesktopEnv"), <<>>)
        b2 == IF ~t.has_swww THEN b3
              ELSE IF output_step(env.swww) = "err" THEN Done(Err("Io"), <<swww>>)
              ELSE IF /\ output_step(env.swww) = "ok"
                      /\ swww_path(env.swww.out, screen) # None
                  THEN Done(OkPath(swww_path(env.swww.out, screen)), <<swww>>)
              ELSE Done(b3.ret, <<swww>> \o b3.procs)
    IN  IF ~t.has_hyprpaper THEN b2
        ELSE IF output_step(env.hyprpaper) = "err" THEN Done(Err("Io"), <<hyprpaper>>)
        ELSE IF output_step(env.hyprpaper) = "ok" /\ trim(env.hyprpaper.out) # <<>>
            THEN Done(OkPath(Some(trim(env.hyprpaper.out))), <<hyprpaper>>)
        ELSE Done(b2.ret, <<hyprpaper>> \o b2.procs)

\* What can become of a process that is waited for, and of one that is not.
Waited == {Run(o, <<>>) : o \in {"nolaunch", "exit0", "exit1"}}

Spawned == {Run(o, <<>>) : o \in {"nolaunch", "exit0", "exit1", "running"}}

SetEnvs == [hyprpaper : Waited, swww : Waited, swaybg : Spawned]

\* The screens a caller names, and the outputs the two query tools print.
Screens == {None, Some(<<"e", "1">>)}

HyprctlOuts == {<<>>, <<"\n">>, <<"h", "p", "\n">>}

SwwwOuts ==
    { <<>>,
      <<Line(<<"E", "1">>, <<"s", "1">>)>>,
      <<Line(<<"f", "2">>, <<"s", "2">>), Line(<<"E", "1">>, <<" ">>)>>,
      <<Line(<<"f", "2">>, <<>>), Line(<<"E", "1">>, <<"s", "1">>)>> }

Queried(outs) ==
    {Run("nolaunch", <<>>), Run("exit1", <<>>)} \cup {Run("exit0", o) : o \in outs}

GetEnvs == [hyprpaper : Queried(HyprctlOuts), swww : Queried(SwwwOuts)]

\* The capability sets a Hyprland manager can have been built with.
ToolSets ==
    {t \in [has_hyprpaper : BOOLEAN, has_swww : BOOLEAN, has_swaybg : BOOLEAN] :
        t.has_hyprpaper \/ t.has_swww \/ t.has_swaybg}

\* A desktop call starts: the acquisition side is left alone.
DesktopCall(name, screen) ==
    /\ pc = "idle"
    /\ nops < MaxCalls
    /\ nops' = nops + 1
    /\ pc' = "done"
    /\ call' = Call(name, FALSE, 0, <<>>, screen, NoClock)
    /\ UNCHANGED <<folderExists, files, loc, last, io, reported, resp, manager, tools,
                   host, probes, wrun, tray, gui>>

\* manager.set_wallpaper(path, screen) on the Hyprland manager.
HyprlandSetWallpaper(screen) ==
    /\ manager = "hyprland"
    /\ DesktopCall("set_wallpaper", screen)
    /\ \E env \in SetEnvs :
        LET d == hyprland_set_wallpaper(tools, env) IN
        /\ ret' = d.ret
        /\ procs' = d.procs

\* manager.set_wallpaper(path, screen) on the Plasma manager.
PlasmaSetWallpaper(screen) ==
    /\ manager = "plasma"
    /\ DesktopCall("set_wallpaper", screen)
    /\ \E run \in Waited :
        LET d == plasma_set_wallpaper(run) IN
        /\ ret' = d.ret
        /\ procs' = d.procs

\* manager.get_wallpaper(screen) on the Hyprland manager.
HyprlandGetWallpaper(screen) ==
    /\ manager = "hyprland"
    /\ DesktopCall("get_wallpaper", screen)
    /\ \E env \in GetEnvs :
        LET d == hyprland_get_wallpaper(tools, screen, env) IN
        /\ ret' = d.ret
        /\ procs' = d.procs

\* utils::command_exists(cmd) on the machine h: `which cmd` succeeds.
command_exists(h, cmd) == cmd \in h.installed

\* The three probes of WallpaperTools::new.
WallpaperTools_new(h) ==
    Tools(command_exists(h, "hyprpaper"), command_exists(h, "swww"),
          command_exists(h, "swaybg"))

\* A check that passes every capability set.
has_any_unchecked(t) == TRUE

\* WallpaperTools::has_any
has_any(t) == t.has_hyprpaper \/ t.has_swww \/ t.has_swaybg

\* A cell that runs its initialiser on every call.
get_or_init_always(cell, init) == init

\* OnceLock::get_or_init: the cell's value afterwards, given what the
\* initialiser yields; the initialiser's value is taken only by an unset cell.
get_or_init(cell, init) == IF cell = NoTools THEN init ELSE cell

\* One entry of the log of get_wallpaper_manager: an availability check, or
\* a constructor that was called.
Step(what, how, outcome) ==
    [tool |-> what, how |-> how, outcome |-> outcome, out |-> <<>>]

Built(v, m, t, found, log) ==
    [ret |-> v, manager |-> m, tools |-> t, probed |-> found, procs |-> log]

\* HyprlandManager::new with WALLPAPER_TOOLS = cell on the machine h, after
\* the steps in log, m being the manager in use so far. The initialiser runs
\* only for an unset cell and panics when it finds no tool, which leaves the
\* cell unset.
HyprlandManager_new(cell, h, m, log) ==
    LET found == WallpaperTools_new(h)
        runs == cell = NoTools
        after == get_or_init(cell, found)
        probed == IF runs THEN <<found>> ELSE <<>>
        entry(o) == log \o <<Step("hyprland", "new", o)>>
    IN  IF runs /\ ~has_any(found) THEN Built(Panic, m, cell, probed, entry("panic"))
        ELSE IF ~has_any(after) THEN Built(Panic, m, after, probed, entry("panic"))
        ELSE Built(OkUnit, "hyprland", after, probed, entry("ok"))

\* PlasmaManager::new
PlasmaManager_new(cell, h, m, log) ==
    IF ~command_exists(h, "qdbus")
    THEN Built(Panic, m, cell, <<>>, log \o <<Step("plasma", "new", "panic")>>)
    ELSE Built(OkUnit, "plasma", cell, <<>>, log \o <<Step("plasma", "new", "ok")>>)

\* HyprlandManager::is_available: the variable is set, or hyprctl can be
\* launched.
hyprland_is_available(h) == h.hypr_sig \/ command_exists(h, "hyprctl")

\* PlasmaManager::is_available
plasma_is_available(h) == h.kde_session

Check(what, b) == Step(what, "is_available", IF b THEN "true" ELSE "false")

Hyprland == <<"h", "y", "p", "r", "l", "a", "n", "d">>

Kde == <<"k", "d", "e">>

Plasma == <<"p", "l", "a", "s", "m", "a">>

\* A selection that checks Plasma before Hyprland.
get_wallpaper_manager_plasma_first(cell, h, m) ==
    LET desktop_lc == to_lowercase(h.desktop)
        hy == Check("hyprland", hyprland_is_available(h))
        pl == Check("plasma", plasma_is_available(h))
    IN  IF desktop_lc = Hyprland THEN HyprlandManager_new(cell, h, m, <<>>)
        ELSE IF desktop_lc = Kde \/ desktop_lc = Plasma
            THEN PlasmaManager_new(cell, h, m, <<>>)
        ELSE IF plasma_is_available(h) THEN PlasmaManager_new(cell, h, m, <<pl>>)
        ELSE IF hyprland_is_available(h) THEN HyprlandManager_new(cell, h, m, <<pl, hy>>)
        ELSE Built(Err("DesktopEnv:NoSupportedDesktop"), m, cell, <<>>, <<pl, hy>>)

\* desktop::get_wallpaper_manager
get_wallpaper_manager(cell, h, m) ==
    LET desktop_lc == to_lowercase(h.desktop)
        hy == Check("hyprland", hyprland_is_available(h))
        pl == Check("plasma", plasma_is_available(h))
    IN  IF desktop_lc = Hyprland THEN HyprlandManager_new(cell, h, m, <<>>)
        ELSE IF desktop_lc = Kde \/ desktop_lc = Plasma
            THEN PlasmaManager_new(cell, h, m, <<>>)
        ELSE IF hyprland_is_available(h) THEN HyprlandManager_new(cell, h, m, <<hy>>)
        ELSE IF plasma_is_available(h) THEN PlasmaManager_new(cell, h, m, <<hy, pl>>)
        ELSE Built(Err("DesktopEnv:NoSupportedDesktop"), m, cell, <<>>, <<hy, pl>>)

\* One call of get_wallpaper_manager by the process.
GetWallpaperManager ==
    /\ pc = "idle"
    /\ nops < MaxCalls
    /\ nops' = nops + 1
    /\ pc' = "done"
    /\ call' = Call("get_wallpaper_manager", FALSE, 0, <<>>, <<>>, NoClock)
    /\ LET b == get_wallpaper_manager(tools, host, manager) IN
        /\ ret' = b.ret
        /\ manager' = b.manager
        /\ tools' = b.tools
        /\ probes' = probes \o b.probed
        /\ procs' = b.procs
    /\ UNCHANGED <<folderExists, files, loc, last, io, reported, resp, host, wrun, tray, gui>>

\* The call has returned, or its thread has unwound, and the process goes
\* on: the manager and WALLPAPER_TOOLS stay.
Return ==
    /\ pc = "done"
    /\ pc' = "idle"
    /\ call' = NoCallYet
    /\ ret' = NoCall
    /\ procs' = <<>>
    /\ UNCHANGED <<folderExists, files, loc, last, io, reported, nops, resp,
                   manager, tools, host, probes, wrun, tray, gui>>

\* The desktop names XDG_CURRENT_DESKTOP may hold: the three the program
\* knows, in mixed case, one it does not know, and none.
Hints ==
    { <<"H", "y", "p", "r", "l", "a", "n", "d">>, <<"K", "D", "E">>, Plasma,
      <<"x", "f", "c", "e">>, <<>> }

\* The commands that may be installed together.
Installs ==
    { {}, {"hyprpaper"}, {"swww", "swaybg"}, {"hyprctl", "qdbus"},
      {"hyprpaper", "swww", "swaybg", "hyprctl", "qdbus", "kdialog"} }

Hosts ==
    {Env(x, s, k, i) : x \in Hints, s \in BOOLEAN, k \in BOOLEAN, i \in Installs}

\* What a screen enumeration tool printed, as serde_json reads it: text that
\* is not JSON, a JSON value that is not an array, or an array whose
\* entries carry a string "name" (Some) or none (None).
Listing(kind, items) == [kind |-> kind, items |-> items]

\* Vec<String> returned by get_screens
ScreensRet(v) == [tag |-> "Screens", path |-> Some(v), count |-> Len(v), kind |-> "-"]

DefaultScreen == <<"default">>

\* iter().filter_map(|m| m["name"].as_str().map(String::from)).collect()
RECURSIVE filter_map_name(_)
filter_map_name(items) ==
    IF items = <<>> THEN <<>>
    ELSE (IF items[1] = None THEN <<>> ELSE <<CHOOSE n \in items[1] : TRUE>>)
            \o filter_map_name(Tail(items))

\* HyprlandManager::get_screens: `hyprctl monitors -j`; the exit status is
\* not looked at.
hyprland_get_screens(run) ==
    Done(ScreensRet(IF run.outcome = "nolaunch" THEN DefaultScreen
                    ELSE IF run.out.kind = "array" THEN filter_map_name(run.out.items)
                    ELSE DefaultScreen),
         <<Proc("hyprctl", "output", run)>>)

\* PlasmaManager::get_screens: qdbus is run and its output is dropped.
plasma_get_screens(run) ==
    Done(ScreensRet(DefaultScreen), <<Proc("qdbus", "output", run)>>)

Monitors ==
    {<<>>, <<Some("e1")>>, <<Some("e2"), Some("e1")>>, <<None>>, <<Some("e2"), None>>}

Listings ==
    {Listing("invalid", <<>>), Listing("object", <<>>)}
        \cup {Listing("array", ms) : ms \in Monitors}

Enumerated ==
    {Run("nolaunch", Listing("invalid", <<>>))}
        \cup {Run(o, l) : o \in {"exit0", "exit1"}, l \in Listings}

HyprlandGetScreens ==
    /\ manager = "hyprland"
    /\ DesktopCall("get_screens", None)
    /\ \E run \in Enumerated :
        LET d == hyprland_get_screens(run) IN
        /\ ret' = d.ret
        /\ procs' = d.procs

PlasmaGetScreens ==
    /\ manager = "plasma"
    /\ DesktopCall("get_screens", None)
    /\ \E run \in Enumerated :
        LET d == plasma_get_screens(run) IN
        /\ ret' = d.ret
        /\ procs' = d.procs

\* utils::send_notification: notify_rust's show(), its error mapped to
\* Error::DesktopEnv.
send_notification(sent, log) ==
    Done(IF sent = "ok" THEN OkUnit ELSE Err("DesktopEnv"),
         log \o <<Step("notify_rust", "show", sent)>>)

\* HyprlandManager::notify
hyprland_notify(sent) == send_notification(sent, <<>>)

\* PlasmaManager::notify: kdialog when `which` finds it, notify_rust when it
\* does not or when kdialog exits non-zero; `cmd.output()?` returns the
\* launch error.
plasma_notify(h, run, sent) ==
    LET kdialog == Proc("kdialog", "output", run)
    IN  IF ~command_exists(h, "kdialog") THEN send_notification(sent, <<>>)
        ELSE IF run.outcome = "nolaunch" THEN Done(Err("Io"), <<kdialog>>)
        ELSE IF run.outcome # "exit0" THEN send_notification(sent, <<kdialog>>)
        ELSE Done(OkUnit, <<kdialog>>)

Sent == {"ok", "err"}

HyprlandNotify ==
    /\ manager = "hyprland"
    /\ DesktopCall("notify", None)
    /\ \E sent \in Sent :
        LET d == hyprland_notify(sent) IN
        /\ ret' = d.ret
        /\ procs' = d.procs

PlasmaNotify ==
    /\ manager = "plasma"
    /\ DesktopCall("notify", None)
    /\ \E run \in Waited, sent \in Sent :
        LET d == plasma_notify(host, run, sent) IN
        /\ ret' = d.ret
        /\ procs' = d.procs

\* Between two calls, commands are installed or removed; the process's
\* environment variables stay.
HostChanges ==
    /\ pc = "idle"
    /\ \E i \in Installs \ {host.installed} : host' = [host EXCEPT !.installed = i]
    /\ UNCHANGED <<folderExists, files, pc, call, loc, last, ret, io, reported, nops,
                   resp, manager, tools, procs, probes, wrun, tray, gui>>

\* A process that has constructed no manager yet, on some machine.
DesktopInit ==
    /\ InitFolder
    /\ folderExists
    /\ files = {}
    /\ manager = "none"
    /\ tools = NoTools
    /\ procs = <<>>
    /\ host \in Hosts
    /\ probes = <<>>
    /\ wrun = NoRun
    /\ tray = NoTray
    /\ gui = NoGui

DesktopNext ==
    \/ GetWallpaperManager
    \/ HostChanges
    \/ \E screen \in Screens : HyprlandSetWallpaper(screen)
    \/ \E screen \in Screens : PlasmaSetWallpaper(screen)
    \/ \E screen \in Screens : HyprlandGetWallpaper(screen)
    \/ HyprlandGetScreens
    \/ PlasmaGetScreens
    \/ HyprlandNotify
    \/ PlasmaNotify
    \/ Return

DesktopSpec == DesktopInit /\ [][DesktopNext]_vars

\* ------------------------------------------------------------ tray applet

\* Duration::from_secs(300)
TooltipTtl == 300

ToolTip(title, description) == [title |-> title, description |-> description]

CachedTooltip(tooltip, wallpaper_path) ==
    [tooltip |-> tooltip, wallpaper_path |-> wallpaper_path]

\* Option::unwrap_or_else
unwrap_or(opt, default) == IF opt = None THEN default ELSE CHOOSE v \in opt : TRUE

\* A refresh that already counts an entry of exactly five minutes as old.
should_refresh_from_ttl(cache, age, current_wallpaper) ==
    IF cache = None THEN TRUE
    ELSE (CHOOSE c \in cache : TRUE).wallpaper_path # current_wallpaper
            \/ age >= TooltipTtl

\* let should_refresh = match &*cache { .. }
should_refresh(cache, age, current_wallpaper) ==
    IF cache = None THEN TRUE
    ELSE (CHOOSE c \in cache : TRUE).wallpaper_path # current_wallpaper
            \/ age > TooltipTtl

\* get_cached_tooltip from the lock on: meta is what exiftool answers for
\* the current wallpaper's Title and Description.
cached_tooltip(t, current_wallpaper, meta) ==
    LET tooltip == ToolTip(unwrap_or(meta.title, "Unknown Title"),
                           unwrap_or(meta.description, "Unknown Description"))
    IN  IF should_refresh(t.cache, t.age, current_wallpaper)
        THEN [cache |-> Some(CachedTooltip(tooltip, current_wallpaper)),
              age |-> 0,
              out |-> Some(tooltip),
              refreshed |-> TRUE]
        ELSE [t EXCEPT !.out = Some((CHOOSE c \in t.cache : TRUE).tooltip),
                       !.refreshed = FALSE]

Metas ==
    {[title |-> Some("T1"), description |-> Some("D1")],
     [title |-> Some("T2"), description |-> None],
     [title |-> None, description |-> None]}

\* ApodWallpaperTray::get_cached_tooltip: get_wallpaper_manager().unwrap(),
\* manager.get_wallpaper(None).unwrap().unwrap(), then the cache. A panic
\* unwinds before the lock is taken and leaves the cache as it is.
GetCachedTooltip ==
    /\ pc = "idle"
    /\ nops < MaxCalls
    /\ nops' = nops + 1
    /\ call' = Call("get_cached_tooltip", FALSE, 0, <<>>, <<>>, NoClock)
    /\ LET b == get_wallpaper_manager(tools, host, manager) IN
        /\ manager' = b.manager
        /\ tools' = b.tools
        /\ probes' = probes \o b.probed
        /\ IF b.ret # OkUnit
           THEN /\ ret' = Panic
                /\ tray' = [tray EXCEPT !.out = None, !.refreshed = FALSE]
           ELSE \E env \in GetEnvs :
                LET g == hyprland_get_wallpaper(b.tools, None, env) IN
                IF g.ret.tag # "Ok" \/ g.ret.path = None
                THEN /\ ret' = Panic
                     /\ tray' = [tray EXCEPT !.out = None, !.refreshed = FALSE]
                ELSE /\ ret' = g.ret
                     /\ \E meta \in Metas :
                          tray' = cached_tooltip(tray, CHOOSE q \in g.ret.path : TRUE, meta)
    /\ UNCHANGED <<folderExists, files, pc, loc, last, io, reported, resp, procs, host,
                   wrun, gui>>

\* Time passes: the cached entry grows older.
Tick(d) ==
    /\ tray.cache # None
    /\ tray.age + d <= TooltipTtl + 1
    /\ tray' = [tray EXCEPT !.age = @ + d, !.out = None, !.refreshed = FALSE]
    /\ UNCHANGED <<folderExists, files, pc, call, loc, last, ret, io, reported, nops,
                   resp, desktop, wrun, gui>>

TrayHosts ==
    {Env(<<"H", "y", "p", "r", "l", "a", "n", "d">>, TRUE, FALSE, i) :
        i \in {{"hyprpaper", "swww"}, {"swww"}, {"swaybg"}, {}}}

TrayInit ==
    /\ InitFolder
    /\ folderExists
    /\ files = {}
    /\ manager = "none"
    /\ tools = NoTools
    /\ procs = <<>>
    /\ host \in TrayHosts
    /\ probes = <<>>
    /\ wrun = NoRun
    /\ tray = NoTray
    /\ gui = NoGui

TrayNext ==
    \/ GetCachedTooltip
    \/ \E d \in {1, TooltipTtl} : Tick(d)

TraySpec == TrayInit /\ [][TrayNext]_vars

\* -------------------------------------------------------- switcher window

\* themes!(Dark, Light, ..): the first two of the available themes.
available_themes == <<"Dark", "Light">>

\* The keys of iced::keyboard the handler tells apart, and one it does not.
Keys == {"Alt", "ArrowRight", "ArrowLeft", "ArrowDown", "ArrowUp", "Enter", "Character"}

\* The image files a save folder can hold, in the order of images.sort().
FolderPaths == <<"a.jpg", "b.png", "c.jpg">>

\* Window widths in pixels: narrower than one image, two images, the
\* initial 870.
Widths == {100, 440, 870}

Image(path, thumbnail) == [path |-> path, thumbnail |-> thumbnail]

\* The thumbnail file generate_single_thumbnail writes for an image: its name
\* is built from the image's stem, the hash of its path and its extension.
Thumb(image_path) == [thumb_of |-> image_path]

\* The sorted listing of the folder holding the files at the positions in held.
RECURSIVE sorted_listing(_, _)
sorted_listing(held, from) ==
    IF from > Len(FolderPaths) THEN <<>>
    ELSE (IF from \in held THEN <<FolderPaths[from]>> ELSE <<>>)
            \o sorted_listing(held, from + 1)

\* Iterator::rev
rev(seq) == [i \in 1..Len(seq) |-> seq[Len(seq) + 1 - i]]

\* load_folder_task: the folder's images, newest name first, none with a
\* thumbnail yet; an unreadable folder gives an empty list.
load_folder_task(held, readable) ==
    IF readable
    THEN [i \in 1..Len(sorted_listing(held, 1)) |->
            Image(rev(sorted_listing(held, 1))[i], None)]
    ELSE <<>>

\* generate_single_thumbnail: what the task for image_path can return.
generate_single_thumbnail(image_path) == {Some(Thumb(image_path)), None}

\* A lookup that takes the first entry still without a thumbnail.
position_of_unfinished(images, original_path) ==
    IF \E i \in 1..Len(images) : images[i].thumbnail = None
    THEN CHOOSE i \in 1..Len(images) :
            /\ images[i].thumbnail = None
            /\ \A j \in 1..(i - 1) : images[j].thumbnail # None
    ELSE 0

\* for (path, thumbnail) in &mut self.images { if *path == original_path { ..; break } }
\* the position of the first entry with that path, 0 if there is none.
position(images, original_path) ==
    IF \E i \in 1..Len(images) : images[i].path = original_path
    THEN CHOOSE i \in 1..Len(images) :
            /\ images[i].path = original_path
            /\ \A j \in 1..(i - 1) : images[j].path # original_path
    ELSE 0

\* idx = (idx + 1) % total
arrow_right(idx, total) == (idx + 1) % total

\* idx = if idx == 0 { total - 1 } else { idx - 1 }
arrow_left(idx, total) == IF idx = 0 THEN total - 1 ELSE idx - 1

\* A step down that is not clamped to the last index.
arrow_down_past_end(idx, images_per_row, total) == idx + images_per_row

\* idx = if idx + images_per_row >= total { total - 1 } else { idx + images_per_row }
arrow_down(idx, images_per_row, total) ==
    IF idx + images_per_row >= total THEN total - 1 ELSE idx + images_per_row

\* idx = if idx < images_per_row { 0 } else { idx - images_per_row }
arrow_up(idx, images_per_row) ==
    IF idx < images_per_row THEN 0 ELSE idx - images_per_row

\* An Alt key that leaves the theme selector as it is.
alt_key_keeps_selector(g) == [g EXCEPT !.show_top_bar = ~g.show_top_bar]

\* if let Key::Named(Named::Alt) = key { .. }
alt_key(g) ==
    [g EXCEPT !.show_top_bar = ~g.show_top_bar,
              !.show_theme_selector = IF g.show_top_bar THEN FALSE ELSE @]

\* let images_per_row = ((actual_width - padding) / (image_width + spacing)).max(1)
images_per_row_of(actual_width) ==
    IF (actual_width - 10) \div (200 + 10) >= 1
    THEN (actual_width - 10) \div (200 + 10)
    ELSE 1

\* The messages.
ImageSelectedMsg(path) == [type |-> "ImageSelected", path |-> path]
ImageHoveredMsg(index) == [type |-> "ImageHovered", index |-> index]
ImageUnhoveredMsg == [type |-> "ImageUnhovered"]
ImagesLoadedMsg(images) == [type |-> "ImagesLoaded", images |-> images]
ThumbnailReadyMsg(path, thumb) == [type |-> "ThumbnailReady", path |-> path, thumb |-> thumb]
ThemeChangedMsg(name) == [type |-> "ThemeChanged", name |-> name]
ToggleThemeSelectorMsg == [type |-> "ToggleThemeSelector"]
KeyPressedMsg(key) == [type |-> "KeyPressed", key |-> key]

\* WallpaperSwitcher::do_update. applied is how the desktop calls of
\* ImageSelected end: every one of them is unwrapped, so a failure panics.
\* The tasks a message starts are added to g.tasks.
RECURSIVE do_update(_, _, _)
do_update(g, message, applied) ==
    CASE message.type = "ImagesLoaded" ->
            [g EXCEPT !.images = message.images,
                      !.tasks = @ \cup {message.images[i].path :
                                    i \in {j \in 1..Len(message.images) :
                                            message.images[j].thumbnail = None}}]
      [] message.type = "ThumbnailReady" ->
            [g EXCEPT !.images =
                [i \in 1..Len(g.images) |->
                    IF i = position(g.images, message.path)
                    THEN Image(g.images[i].path, message.thumb)
                    ELSE g.images[i]]]
      [] message.type = "ImageSelected" ->
            [g EXCEPT !.selected = Some(message.path),
                      !.at = IF applied = "ok" THEN "exit" ELSE "panic"]
      [] message.type = "ImageHovered" ->
            [g EXCEPT !.hovered_image = Some(message.index)]
      [] message.type = "ImageUnhovered" ->
            [g EXCEPT !.hovered_image = None]
      [] message.type = "ThemeChanged" ->
            [g EXCEPT !.theme = message.name, !.show_theme_selector = FALSE]
      [] message.type = "ToggleThemeSelector" ->
            [g EXCEPT !.show_theme_selector = ~g.show_theme_selector]
      [] message.type = "KeyPressed" ->
            LET g1 == IF message.key = "Alt" THEN alt_key(g) ELSE g
                total == Len(g1.images)
                idx == unwrap_or(g1.hovered_image, 0)
                images_per_row == g1.images_per_row
                moved(to) ==
                    do_update([g1 EXCEPT !.hovered_image = Some(to)],
                              ImageHoveredMsg(to), applied)
            IN  IF total = 0 THEN g1
                ELSE CASE message.key = "ArrowRight" -> moved(arrow_right(idx, total))
                       [] message.key = "ArrowLeft" -> moved(arrow_left(idx, total))
                       [] message.key = "ArrowDown" ->
                            moved(arrow_down(idx, images_per_row, total))
                       [] message.key = "ArrowUp" -> moved(arrow_up(idx, images_per_row))
                       [] message.key = "Enter" ->
                            IF g1.hovered_image # None /\ idx < total
                            THEN do_update(g1, ImageSelectedMsg(g1.images[idx + 1].path),
                                           applied)
                            ELSE g1
                       [] OTHER -> g1
      [] OTHER -> g

\* How the desktop calls of a selection can end.
Applied == {"ok", "panic"}

\* The window is open and handles messages.
Open == gui.at \in {"loading", "ready"}

\* update(app, message), noting the message handled.
Handle(message, applied, arg) ==
    gui' = [do_update(gui, message, applied) EXCEPT
                !.last = [type |-> message.type, arg |-> arg]]

GuiRest ==
    UNCHANGED <<folderExists, files, pc, call, loc, last, ret, io, reported, nops, resp,
                desktop, wrun, tray>>

\* The task of WallpaperSwitcher::new ends: ImagesLoaded.
GuiImagesLoaded(held, readable) ==
    /\ gui.at = "loading"
    /\ gui' = [do_update(gui, ImagesLoadedMsg(load_folder_task(held, readable)), "ok")
                EXCEPT !.at = "ready",
                       !.last = [type |-> "ImagesLoaded", arg |-> ""]]
    /\ GuiRest

\* One of the running thumbnail tasks ends, whichever is first.
GuiThumbnailReady(path, thumb) ==
    /\ gui.at = "ready"
    /\ path \in gui.tasks
    /\ LET g == do_update(gui, ThumbnailReadyMsg(path, thumb), "ok") IN
        gui' = [g EXCEPT !.tasks = @ \ {path},
                         !.produced = @ \cup {<<path, thumb>>},
                         !.last = [type |-> "ThumbnailReady", arg |-> path]]
    /\ GuiRest

\* mouse_area(..).on_enter(Message::ImageHovered(global_index))
GuiImageHovered(index) ==
    /\ Open
    /\ index \in 0..(Len(gui.images) - 1)
    /\ Handle(ImageHoveredMsg(index), "ok", "")
    /\ GuiRest

\* mouse_area(..).on_exit(Message::ImageUnhovered)
GuiImageUnhovered ==
    /\ Open
    /\ gui.images # <<>>
    /\ Handle(ImageUnhoveredMsg, "ok", "")
    /\ GuiRest

\* mouse_area(..).on_press(Message::ImageSelected(original_path.clone()))
GuiImageSelected(index, applied) ==
    /\ Open
    /\ index \in 1..Len(gui.images)
    /\ Handle(ImageSelectedMsg(gui.images[index].path), applied, gui.images[index].path)
    /\ GuiRest

\* The theme buttons, shown while the selector is.
GuiThemeChanged(name) ==
    /\ Open
    /\ gui.show_theme_selector
    /\ Handle(ThemeChangedMsg(name), "ok", name)
    /\ GuiRest

\* Cancel while the selector is shown, else the Theme button of the top bar.
GuiToggleThemeSelector ==
    /\ Open
    /\ gui.show_theme_selector \/ gui.show_top_bar
    /\ Handle(ToggleThemeSelectorMsg, "ok", "")
    /\ GuiRest

\* subscription: iced::keyboard::on_key_press
GuiKeyPressed(key, applied) ==
    /\ Open
    /\ Handle(KeyPressedMsg(key), applied, key)
    /\ GuiRest

\* view at a window width: create_responsive_view sets images_per_row once
\* there are images.
GuiView(actual_width) ==
    /\ Open
    /\ gui.images # <<>>
    /\ gui' = [gui EXCEPT !.images_per_row = images_per_row_of(actual_width),
                          !.last = [type |-> "view", arg |-> ""]]
    /\ GuiRest

GuiInit ==
    /\ InitFolder
    /\ folderExists
    /\ files = {}
    /\ manager = "none"
    /\ tools = NoTools
    /\ procs = <<>>
    /\ host = NoEnv
    /\ probes = <<>>
    /\ wrun = NoRun
    /\ tray = NoTray
    /\ gui = [NoGui EXCEPT !.at = "loading"]

GuiNext ==
    \/ \E held \in SUBSET (1..Len(FolderPaths)), readable \in BOOLEAN :
            GuiImagesLoaded(held, readable)
    \/ \E path \in gui.tasks :
            \E thumb \in generate_single_thumbnail(path) : GuiThumbnailReady(path, thumb)
    \/ \E index \in 0..(Len(FolderPaths) - 1) : GuiImageHovered(index)
    \/ GuiImageUnhovered
    \/ \E index \in 1..Len(FolderPaths), applied \in Applied :
            GuiImageSelected(index, applied)
    \/ \E name \in {available_themes[i] : i \in 1..Len(available_themes)} :
            GuiThemeChanged(name)
    \/ GuiToggleThemeSelector
    \/ \E key \in Keys, applied \in Applied : GuiKeyPressed(key, applied)
    \/ \E actual_width \in Widths : GuiView(actual_width)

GuiSpec == GuiInit /\ [][GuiNext]_vars

\* ------------------------------------------------------ main: wallpaper run

\* A `?` that lets the error go by.
propagates_nothing(v) == FALSE

\* `?` (and an unwinding panic): the value leaves main.
propagates(v) == v.tag \in {"Err", "Panic"}

\* main's max_offset, 365 in the source, scaled to the model's dates.
max_offset == MaxOffset

\* One call of main and what it returned.
Did(op, v) == [op |-> op, tag |-> v.tag, kind |-> v.kind]

multi_monitor_on(w) == w.args.multi_monitor \/ (w.args.use_config /\ w.config.multi_monitor)

random_on(w) == w.args.random \/ (w.args.use_config /\ w.config.random)

pywal_on(w) == w.args.pywal \/ (w.args.use_config /\ w.config.pywal)

wallust_on(w) == w.args.wallust \/ (w.args.use_config /\ w.config.wallust)

\* A loop that runs through every offset, however many images it has.
acquiring_every_offset(w) == w.offset < max_offset

\* while image_paths.len() < screens.len() && offset < max_offset
acquiring(w) == Len(w.image_paths) < Len(w.screens) /\ w.offset < max_offset

\* A failure that is noted while the run goes on from where it stands.
Leave_noted(w, v) == [w EXCEPT !.result = v]

\* main leaves with v.
Leave(w, v) == [w EXCEPT !.at = "exit", !.result = v]

\* WallpaperConfig::load_or_default: the file is read and parsed when it
\* exists, and in both branches the configuration is written back with
\* save() before it is returned.
load_or_default(loaded) ==
    IF loaded = "unreadable" THEN [ret |-> Err("Config"), log |-> <<>>]
    ELSE IF loaded = "unwritable"
        THEN [ret |-> Err("Io"), log |-> <<Did("config_save", Err("Io"))>>]
    ELSE [ret |-> OkUnit, log |-> <<Did("config_save", OkUnit)>>]

Loads == {"ok", "unreadable", "unwritable"}

\* WallpaperConfig::load_or_default()?, then get_wallpaper_manager()?.
MainStart(args, config, now, loaded) ==
    LET w0 == [NoRun EXCEPT !.args = args, !.config = config, !.now = now]
        load == load_or_default(loaded).ret
        w1 == [w0 EXCEPT !.log = load_or_default(loaded).log
                                    \o <<Did("config_load", load)>>]
        b == get_wallpaper_manager(tools, host, manager)
        w2 == [w1 EXCEPT !.log = Append(@, Did("get_wallpaper_manager", b.ret))]
    IN  /\ wrun.at = "-"
        /\ nops < MaxOps
        /\ nops' = nops + 1
        /\ IF propagates(load)
           THEN /\ wrun' = Leave(w1, load)
                /\ UNCHANGED <<manager, tools, probes>>
           ELSE /\ manager' = b.manager
                /\ tools' = b.tools
                /\ probes' = probes \o b.probed
                /\ wrun' = IF propagates(b.ret) THEN Leave(w2, b.ret)
                           ELSE [w2 EXCEPT !.at = "screens"]
        /\ UNCHANGED <<folderExists, files, pc, call, loc, last, ret, io, reported,
                       resp, procs, host, tray, gui>>

\* let screens = if multi_monitor { manager.get_screens() } else { ["default"] }
MainGetScreens ==
    /\ wrun.at = "screens"
    /\ \E run \in Enumerated :
        LET d == IF manager = "hyprland" THEN hyprland_get_screens(run)
                 ELSE plasma_get_screens(run)
            w1 == IF multi_monitor_on(wrun)
                  THEN [wrun EXCEPT !.screens = CHOOSE v \in d.ret.path : TRUE,
                                    !.log = Append(@, Did("get_screens", d.ret))]
                  ELSE [wrun EXCEPT !.screens = DefaultScreen]
        IN  wrun' = [w1 EXCEPT !.at = IF acquiring(w1) THEN "acquire" ELSE "apply"]
    /\ UNCHANGED <<folderExists, files, pc, call, loc, last, ret, io, reported, nops,
                   resp, desktop, tray, gui>>

\* One turn of the acquisition loop: get_image(folder, random, Some(offset))
\* awaited, its error returned, its image pushed.
MainGetImage ==
    LET random == random_on(wrun)
        target == target_date_of(wrun.now, wrun.offset)
        target_date == IF random THEN None ELSE Some(target)
        local == IF random THEN get_random_local_image(files)
                 ELSE get_local_image_for_date(files, target)
        list == IF random THEN Ev("list", <<>>) ELSE Lookup(target)
        after(v) ==
            LET w1 == [wrun EXCEPT !.log = Append(@, Did("get_image", v))]
                w2 == [w1 EXCEPT !.image_paths = IF v.path # None
                                                 THEN Append(@, CHOOSE p \in v.path : TRUE)
                                                 ELSE @,
                                 !.offset = @ + 1]
            IN  IF propagates(v) THEN Leave(w1, v)
                ELSE [w2 EXCEPT !.at = IF acquiring(w2) THEN "acquire" ELSE "apply"]
    IN  /\ wrun.at = "acquire"
        /\ call' = Call("get_image", random, wrun.offset, <<>>, <<>>, wrun.now)
        /\ folderExists' = TRUE
        /\ IF local # None
           THEN /\ \E p \in local :
                    /\ ret' = OkPath(Some(p))
                    /\ wrun' = after(OkPath(Some(p)))
                /\ files' = files
                /\ io' = create_dir \o <<list>>
           ELSE \E r \in Responses(target_date, random) :
                LET d == download_single_image(files, target_date, random, r) IN
                /\ ret' = d.ret
                /\ files' = d.files
                /\ io' = create_dir \o <<list>> \o d.io
                /\ wrun' = after(d.ret)
        /\ UNCHANGED <<pc, loc, last, reported, nops, resp, desktop, tray, gui>>

\* One turn of `for (i, screen) in screens.iter().enumerate()`:
\* set_wallpaper(&image_paths[i], Some(screen))? when there is an i-th image.
MainSetWallpaper ==
    /\ wrun.at = "apply"
    /\ wrun.i < Len(wrun.screens)
    /\ \E env \in SetEnvs, run \in Waited :
        LET d == IF manager = "hyprland" THEN hyprland_set_wallpaper(tools, env)
                 ELSE plasma_set_wallpaper(run)
            w1 == [wrun EXCEPT !.log = Append(@, Did("set_wallpaper", d.ret))]
        IN  wrun' = IF wrun.i + 1 > Len(wrun.image_paths)
                    THEN [wrun EXCEPT !.i = @ + 1]
                    ELSE IF propagates(d.ret) THEN Leave(w1, d.ret)
                    ELSE [w1 EXCEPT !.i = @ + 1]
    /\ UNCHANGED <<folderExists, files, pc, call, loc, last, ret, io, reported, nops,
                   resp, desktop, tray, gui>>

\* manager.notify(.., Some(&get_nasa_svg_path().unwrap()))?
MainNotify ==
    /\ wrun.at = "apply"
    /\ ~(wrun.i < Len(wrun.screens))
    /\ \E svg \in {"ok", "err"}, run \in Waited, sent \in Sent :
        LET d == IF manager = "hyprland" THEN hyprland_notify(sent)
                 ELSE plasma_notify(host, run, sent)
            w1 == [wrun EXCEPT !.log = Append(@, Did("notify", d.ret))]
        IN  wrun' = IF svg = "err"
                    THEN Leave([wrun EXCEPT !.log = Append(@, Did("get_nasa_svg_path", Panic))],
                               Panic)
                    ELSE IF propagates(d.ret) THEN Leave(w1, d.ret)
                    ELSE [w1 EXCEPT !.at = "colors"]
    /\ UNCHANGED <<folderExists, files, pc, call, loc, last, ret, io, reported, nops,
                   resp, desktop, tray, gui>>

\* utils::generate_pywal_colors / generate_wallust_colors
generate_colors(h, cmd, run) ==
    IF ~command_exists(h, cmd) THEN Err("DesktopEnv")
    ELSE IF run.outcome = "nolaunch" THEN Err("Io")
    ELSE IF run.outcome # "exit0" THEN Err("DesktopEnv")
    ELSE OkUnit

\* The colour schemes, then config.save()? unless --use-config.
MainFinish ==
    /\ wrun.at = "colors"
    /\ \E wal \in Waited, wallust \in Waited, saved \in {"ok", "err"} :
        LET want == wrun.image_paths # <<>> /\ (pywal_on(wrun) \/ wallust_on(wrun))
            p == generate_colors(host, "wal", wal)
            u == generate_colors(host, "wallust", wallust)
            w1 == IF want /\ pywal_on(wrun)
                  THEN [wrun EXCEPT !.log = Append(@, Did("generate_pywal_colors", p))]
                  ELSE wrun
            w2 == IF want /\ wallust_on(wrun)
                  THEN [w1 EXCEPT !.log = Append(@, Did("generate_wallust_colors", u))]
                  ELSE w1
            save == IF saved = "ok" THEN OkUnit ELSE Err("Io")
            w3 == [w2 EXCEPT !.log = Append(@, Did("config_save", save)),
                             !.config = IF saved = "ok"
                                        THEN Config(wrun.args.multi_monitor, wrun.args.random,
                                                    wrun.args.pywal, wrun.args.wallust)
                                        ELSE @]
        IN  wrun' = IF want /\ pywal_on(wrun) /\ propagates(p) THEN Leave(w1, p)
                    ELSE IF want /\ wallust_on(wrun) /\ propagates(u) THEN Leave(w2, u)
                    ELSE IF wrun.args.use_config THEN Leave(w2, OkUnit)
                    ELSE Leave(w3, save)
    /\ UNCHANGED <<folderExists, files, pc, call, loc, last, ret, io, reported, nops,
                   resp, desktop, tray, gui>>

\* The process ends; the folder stays, and the next invocation is a new
\* process.
MainExit ==
    /\ wrun.at = "exit"
    /\ nops < MaxOps
    /\ wrun' = NoRun
    /\ manager' = "none"
    /\ tools' = NoTools
    /\ probes' = <<>>
    /\ call' = NoCallYet
    /\ ret' = NoCall
    /\ io' = <<>>
    /\ UNCHANGED <<folderExists, files, pc, loc, last, reported, nops, resp, procs, host, tray, gui>>

MainArgs ==
    {Args(FALSE, FALSE, FALSE, FALSE, FALSE),
     Args(TRUE, FALSE, FALSE, FALSE, FALSE),
     Args(TRUE, TRUE, FALSE, TRUE, FALSE),
     Args(FALSE, FALSE, TRUE, FALSE, TRUE)}

MainConfigs == {DefaultConfig, Config(TRUE, TRUE, FALSE, FALSE)}

MainHosts ==
    {Env(<<"H", "y", "p", "r", "l", "a", "n", "d">>, TRUE, FALSE,
         {"hyprpaper", "swww", "swaybg", "hyprctl", "wal"}),
     Env(<<"K", "D", "E">>, FALSE, TRUE, {"qdbus", "kdialog", "wallust"}),
     Env(<<>>, FALSE, FALSE, {})}

MainInit ==
    /\ InitFolder
    /\ manager = "none"
    /\ tools = NoTools
    /\ procs = <<>>
    /\ host \in MainHosts
    /\ probes = <<>>
    /\ wrun = NoRun
    /\ tray = NoTray
    /\ gui = NoGui

MainNext ==
    \/ \E args \in MainArgs, config \in MainConfigs, now \in Clocks,
          loaded \in Loads : MainStart(args, config, now, loaded)
    \/ MainGetScreens
    \/ MainGetImage
    \/ MainSetWallpaper
    \/ MainNotify
    \/ MainFinish
    \/ MainExit

MainSpec == MainInit /\ [][MainNext]_vars

\* ------------------------------------------------------------ observations

\* s begins with p, stated without the program's own comparison.
HasPrefix(s, p) == \E k \in 0..Len(s) : SubSeq(s, 1, k) = p

\* The folder fs holds a file whose name starts with day D as YYYY-MM-DD.
HoldsDate(fs, D) == \E f \in fs : HasPrefix(f, IsoDate(D))

\* The network requests of a log, in order.
Requests(log) == SelectSeq(log, IsRequest)

IsGet(e) == e.ev = "get"

IsList(e) == e.ev = "list"

IsWrite(e) == e.ev = "write"

\* What this step added to the call's log.
NewEvents ==
    IF nops' = nops THEN SubSeq(io', Len(io) + 1, Len(io')) ELSE io'

\* The date strings a log looked up in the folder, in order.
Visited(log) ==
    LET l == SelectSeq(log, IsList) IN [k \in 1..Len(l) |-> l[k].arg]

\* The event e is a request for, or a lookup of, day D, however written.
GetsDate(e, D) == IsGet(e) /\ parse_from_str(e.arg) = Some(D)

ListsDate(e, D) == IsList(e) /\ parse_from_str(e.arg) = Some(D)

DateWorkflows == {"download_range", "download_date_range", "download_specific_date"}

\* ------------------------------------------------------------------ claims

\* C1: when the folder already holds a file whose name starts with date D,
\* get_image with random = false whose target date is D, and
\* download_specific_date for D, issue no network request and leave the
\* folder as it is; get_image returns the path of a file of the folder
\* whose name starts with D.
C1_Step ==
    \A D \in AllDays :
        (HoldsDate(files, D) /\ nops' = nops + 1) =>
            /\ (/\ call'.name = "get_image"
                /\ ~call'.random
                /\ target_date_of(call'.now, call'.n) = D)
               => /\ Requests(io') = <<>>
                  /\ files' = files
                  /\ ret'.tag = "Ok"
                  /\ ret'.path # None
                  /\ ret'.path \subseteq files
                  /\ \A p \in ret'.path : HasPrefix(p, IsoDate(D))
            /\ (/\ call'.name = "download_specific_date"
                /\ parse_from_str(call'.s1) = Some(D))
               => /\ Requests(io') = <<>>
                  /\ files' = files
                  /\ ret' = OkCount(0)

C1_CachedNoNetwork == [][C1_Step]_vars

\* C1's case: get_image for a date found a file that is not <date>.jpg and
\* returned it without a request.
C1_Witness ==
    /\ pc = "done"
    /\ call.name = "get_image"
    /\ ~call.random
    /\ ret.tag = "Ok"
    /\ ret.path # None
    /\ \A p \in ret.path : extension(p) # Some(Jpg) \/ Len(p) > 14
    /\ Requests(io) = <<>>

\* C2: in the loops of download_range and download_date_range, a date the
\* folder resolves at the moment it is visited is only looked up: no request
\* follows, nothing is written and the count stays as it is.
C2_Step ==
    (pc \in {"range", "span"} /\ Len(io') > Len(io)) =>
        /\ IsList(NewEvents[1])
        /\ (\E f \in files : HasPrefix(f, NewEvents[1].arg))
              => /\ Len(NewEvents) = 1
                 /\ files' = files
                 /\ pc' = pc
                 /\ loc'.downloaded_count = loc.downloaded_count

C2_SkipIfPresent == [][C2_Step]_vars

\* C2's case: a loop has just skipped a date that the folder resolves, after
\* fetching an earlier one.
C2_Witness ==
    /\ pc \in {"range", "span"}
    /\ Len(io) > 2
    /\ IsList(io[Len(io)])
    /\ \E f \in files : HasPrefix(f, io[Len(io)].arg)
    /\ last = NoCall

\* C3: the folder never holds two files whose names start with the same
\* date (every initial folder holds at most one per date).
C3_OneFilePerDate ==
    \A D \in AllDays :
        Cardinality({f \in files : HasPrefix(f, IsoDate(D))}) <= 1

\* C4: a date that a date workflow has reported as downloaded is never
\* requested again by a later date workflow on the same folder, and a later
\* visit of it adds nothing to the count.
C4_Step ==
    (call'.name \in DateWorkflows /\ io' # io) =>
        \A D \in reported :
            /\ \A k \in 1..Len(NewEvents) : ~GetsDate(NewEvents[k], D)
            /\ (\E k \in 1..Len(NewEvents) : ListsDate(NewEvents[k], D))
                  => /\ files' = files
                     /\ pc' \in {"range", "span"}
                           => loc'.downloaded_count = loc.downloaded_count
                     /\ pc' = "done" => ret' = OkCount(0)

C4_Idempotent == [][C4_Step]_vars

\* C4's case: the second run has looked up a date that the first run
\* reported as downloaded, and has not requested it.
C4_Witness ==
    /\ nops = 2
    /\ call.name \in DateWorkflows
    /\ \E D \in reported :
          /\ \E k \in 1..Len(io) : ListsDate(io[k], D)
          /\ \A k \in 1..Len(io) : ~GetsDate(io[k], D)

\* C5: every file that download_single_image has written, named <date>.<ext>
\* after the remote's date, is among the files get_local_image_for_date
\* finds for that date.
C5_RoundTrip ==
    \A k \in 1..Len(io) :
        IsWrite(io[k]) =>
            /\ \E D \in AllDays, e \in {Jpg, Jpeg, Png} :
                  io[k].arg = IsoDate(D) \o <<".">> \o e
            /\ \A D \in AllDays :
                  HasPrefix(io[k].arg, IsoDate(D))
                      => io[k].arg \in get_local_image_for_date(files, D)

\* C5's case: a call has written a file.
C5_Witness ==
    /\ pc = "done"
    /\ \E k \in 1..Len(io) : IsWrite(io[k])
    /\ ret.tag = "Ok"

\* The day a valid date string names.
DayOf(str) == CHOOSE n \in parse_from_str(str) : TRUE

\* The call is a download_date_range whose arguments are dates, start <= end.
ValidSpan(c) ==
    /\ c.name = "download_date_range"
    /\ parse_from_str(c.s1) # Invalid
    /\ parse_from_str(c.s2) # Invalid
    /\ DayOf(c.s1) <= DayOf(c.s2)

\* The number of events of a log that satisfy Test.
Count(log, Test(_)) == Len(SelectSeq(log, Test))

\* C6: download_date_range with start <= end looks up the dates start,
\* start + 1, ..., end in that order, each once and no other: what it has
\* visited is always a prefix of that sequence, every step of its loop visits
\* exactly the next date, and it returns Ok only after the last one, end -
\* start + 1 dates in all; the loop ends after at most that many steps.
C6_Visited(c, log, p, r) ==
    (ValidSpan(c) /\ p \in {"span", "done"}) =>
        LET v == Visited(log)
            N == DayOf(c.s2) - DayOf(c.s1) + 1
        IN  /\ Len(v) <= N
            /\ \A k \in 1..Len(v) : v[k] = IsoDate(DayOf(c.s1) + k - 1)
            /\ (p = "done" /\ r.tag = "Ok") => Len(v) = N

C6_Step ==
    /\ C6_Visited(call', io', pc', ret')
    /\ pc = "span" =>
          \/ Len(Visited(io')) = Len(Visited(io)) + 1
          \/ /\ pc' = "done"
             /\ ret'.tag = "Ok"
             /\ io' = io

FailsBeforeIO(k) ==
    /\ pc' = "done"
    /\ ret' = Err(k)
    /\ io' = <<>>
    /\ folderExists' = folderExists
    /\ files' = files

\* C7: download_date_range returns the invalid-date error before any I/O
\* when either argument fails to parse, and the invalid-range error before
\* any I/O when start is after end; download_specific_date returns the
\* invalid-date error before any I/O when its argument fails to parse.
C7_Step ==
    nops' = nops + 1 =>
        /\ (/\ call'.name = "download_date_range"
            /\ (parse_from_str(call'.s1) = Invalid \/ parse_from_str(call'.s2) = Invalid))
           => FailsBeforeIO("Api:InvalidDate")
        /\ (/\ call'.name = "download_date_range"
            /\ parse_from_str(call'.s1) # Invalid
            /\ parse_from_str(call'.s2) # Invalid
            /\ DayOf(call'.s1) > DayOf(call'.s2))
           => FailsBeforeIO("Api:InvalidRange")
        /\ (/\ call'.name = "download_specific_date"
            /\ parse_from_str(call'.s1) = Invalid)
           => FailsBeforeIO("Api:InvalidDate")

C7_ErrorsBeforeIO == [][C7_Step]_vars

\* C7's case: a span whose start is after its end has failed, and the
\* missing folder is still missing.
C7_Witness ==
    /\ pc = "done"
    /\ call.name = "download_date_range"
    /\ ret = Err("Api:InvalidRange")
    /\ ~folderExists
    /\ io = <<>>

C9_Step ==
    pc \in {"range", "span"} =>
        /\ (Len(io') > Len(io) /\ last'.tag = "Err") =>
              /\ pc' = pc
              /\ loc'.i = loc.i + 1
              /\ loc'.downloaded_count = loc.downloaded_count
              /\ files' = files
              /\ ret' = ret
        /\ pc' = "done" =>
              /\ ret'.tag # "Err"
              /\ ret'.tag = "Ok" => ret' = OkCount(loc.downloaded_count)

C9_FailureDoesNotAbort == [][C9_Step]_vars

\* C9's case: a range has returned a count of 1 after the fetch of its first
\* date failed and the fetch of its second date wrote an image.
C9_Witness ==
    /\ pc = "done"
    /\ call.name = "download_range"
    /\ ret = OkCount(1)
    /\ Count(io, IsGet) = 2
    /\ io[Len(io)].ev \in {"write", "exif"}

\* C10: get_image and download_specific_date return the error of a failed
\* fetch to their caller; download_specific_date returns Ok(1) exactly when
\* its fetch wrote an image, and Ok(0) when the date was cached or the remote
\* had no image for it.
C10_SingleDatePropagates ==
    (pc = "done" /\ call.name \in {"get_image", "download_specific_date"}) =>
        /\ last.tag = "Err" => ret = last
        /\ (call.name = "download_specific_date" /\ parse_from_str(call.s1) # Invalid) =>
              /\ ret = OkCount(1) <=> Count(io, IsWrite) = 1
              /\ last = NoCall => (ret = OkCount(0) /\ Count(io, IsGet) = 0)
              /\ last = OkPath(None) => ret = OkCount(0)
              /\ ret.tag = "Ok" => ret.count = Count(io, IsWrite)

\* C10's case: download_specific_date has returned the rate-limit error of
\* its fetch.
C10_Witness ==
    /\ pc = "done"
    /\ call.name = "download_specific_date"
    /\ ret = Err("Api:RateLimit")
    /\ Count(io, IsGet) = 1

\* Events of a log that fetch the asset or put a file on the disk.
IsAsset(e) == e.ev = "asset"

Touches(log) == SelectSeq(log, LAMBDA e : IsAsset(e) \/ IsWrite(e))

\* The step is one whole call of download_single_image.
Fetched == pc = "idle" /\ pc' = "done" /\ call'.name = "download_single_image"

\* C11: when the metadata request is answered with a status outside 200..299,
\* download_single_image returns the rate-limit error for 403, Ok(None) for
\* 404 and the remote error for every other such status; in each of these
\* cases it requests no asset, writes no file and leaves the folder as it is.
C11_Step ==
    (Fetched /\ resp'.send = "ok" /\ resp'.status \notin 200..299) =>
        /\ resp'.status = 403 => ret' = Err("Api:RateLimit")
        /\ resp'.status = 404 => ret' = OkPath(None)
        /\ resp'.status \notin {403, 404} => ret' = Err("Api:Http")
        /\ Touches(io') = <<>>
        /\ Len(Requests(io')) = 1
        /\ files' = files

C11_StatusMapping == [][C11_Step]_vars

\* C11's case: a 404 for an image entry with both URLs was answered with
\* Ok(None) and nothing but the metadata request.
C11_Witness ==
    /\ pc = "done"
    /\ call.name = "download_single_image"
    /\ resp.send = "ok"
    /\ resp.status = 404
    /\ resp.media_type = "image"
    /\ resp.hd_url # None
    /\ ret = OkPath(None)
    /\ Len(io) = 1

\* The metadata request was answered with a success status and a body that
\* decodes to an entry.
Decoded(r) == r.send = "ok" /\ r.status \in 200..299 /\ r.body = "ok"

\* C12: when the metadata entry's media_type is anything but "image",
\* download_single_image returns Ok(None), requests no asset, writes no file
\* and leaves the folder as it is.
C12_Step ==
    (Fetched /\ Decoded(resp') /\ resp'.media_type # "image") =>
        /\ ret' = OkPath(None)
        /\ Touches(io') = <<>>
        /\ Len(Requests(io')) = 1
        /\ files' = files

C12_NonImageIsNone == [][C12_Step]_vars

\* C12's case: an entry that is neither an image nor a video, with a
\* supported hdurl, was answered with Ok(None).
C12_Witness ==
    /\ pc = "done"
    /\ call.name = "download_single_image"
    /\ Decoded(resp)
    /\ resp.media_type = "other"
    /\ resp.hd_url = Some(HdUrl(Jpg))
    /\ ret = OkPath(None)
    /\ Touches(io) = <<>>

\* The asset requests of a log.
Assets(log) == SelectSeq(log, IsAsset)

\* C13: for an image entry with at least one of hdurl and url,
\* download_single_image does not abort, and the asset it goes on to request
\* is the hdurl when there is one, whether or not there is a url, and the
\* url only when there is no hdurl.
C13_Step ==
    (/\ Fetched
     /\ Decoded(resp')
     /\ resp'.media_type = "image"
     /\ (resp'.hd_url # None \/ resp'.url # None)) =>
        /\ ret'.tag # "Panic"
        /\ \A k \in 1..Len(Assets(io')) :
              Assets(io')[k].arg \in
                  (IF resp'.hd_url # None THEN resp'.hd_url ELSE resp'.url)

C13_PrefersHdUrl == [][C13_Step]_vars

\* The URL the entry r offers for its asset: the hdurl, else the url.
AssetUrl(r) == IF r.hd_url # None THEN r.hd_url ELSE r.url

\* u ends in ".e" for one of the three supported extensions e, in any case.
EndsSupported(u) ==
    \E e \in {Jpg, Jpeg, Png} :
        /\ Len(u) > Len(e) + 1
        /\ u[Len(u) - Len(e)] = "."
        /\ \A k \in 1..Len(e) : LowerChar(u[Len(u) - Len(e) + k]) = e[k]

\* u has an extension: a '.' after its first character.
HasExtension(u) == \E k \in 2..Len(u) : u[k] = "."

\* C14: for an image entry whose asset URL has an extension that is, in any
\* case, none of jpg, jpeg and png, download_single_image returns the
\* unsupported-format error, requests no asset, writes no file and leaves
\* the folder as it is.
C14_Step ==
    (/\ Fetched
     /\ Decoded(resp')
     /\ resp'.media_type = "image"
     /\ \E u \in AssetUrl(resp') : HasExtension(u) /\ ~EndsSupported(u)) =>
        /\ ret' = Err("Api:Unsupported")
        /\ Touches(io') = <<>>
        /\ files' = files

C14_RejectsUnsupported == [][C14_Step]_vars

\* The files a log wrote.
Written(log) == {log[k].arg : k \in {j \in 1..Len(log) : IsWrite(log[j])}}

\* C15: once download_single_image has written the image file, it returns
\* Ok(Some(path of that file)) whatever becomes of exiftool (missing, not
\* starting, exiting non-zero or succeeding), and the date workflows count
\* that result as one downloaded image.
C15_Step ==
    (Fetched /\ Written(io') # {}) =>
        /\ ret'.tag = "Ok"
        /\ ret'.path # None
        /\ ret'.path = Written(io')
        /\ ret'.path \subseteq files'
        /\ Counted(ret') = 1
        /\ specific_result(ret') = OkCount(1)

C15_ExifNeverPropagates == [][C15_Step]_vars

\* C15's case: exiftool ran on the written file and exited non-zero, and the
\* call returned the file's path.
C15_Witness ==
    /\ pc = "done"
    /\ call.name = "download_single_image"
    /\ resp.exif = "nonzero"
    /\ add_exif_metadata(resp.exif).tag = "Err"
    /\ Written(io) # {}
    /\ \E k \in 1..Len(io) : io[k].ev = "exif"
    /\ ret.tag = "Ok"
    /\ ret.path = Written(io)

\* f is a cached image: a file named <YYYY-MM-DD>.<jpg|jpeg|png>.
IsCachedImage(f) ==
    \E D \in AllDays, e \in {Jpg, Jpeg, Png} : f = FileName(IsoDate(D), e)

\* C16: get_image with random = true, called on a folder that holds at least
\* one cached image, returns a file of the folder, issues no network request
\* and leaves the folder as it is.
C16_Step ==
    (/\ nops' = nops + 1
     /\ call'.name = "get_image"
     /\ call'.random
     /\ \E f \in files : IsCachedImage(f)) =>
        /\ Requests(io') = <<>>
        /\ ret'.tag = "Ok"
        /\ ret'.path # None
        /\ ret'.path \subseteq files
        /\ files' = files

C16_RandomLocalFirst == [][C16_Step]_vars

\* The three tools in the order of the claim, and a tool's place in it.
ToolOrder == <<"hyprpaper", "swww", "swaybg">>

Rank(tool) == CHOOSE k \in 1..Len(ToolOrder) : ToolOrder[k] = tool

\* The tools of the capability set t.
Available(t) ==
    {n \in {"hyprpaper", "swww", "swaybg"} :
        \/ n = "hyprpaper" /\ t.has_hyprpaper
        \/ n = "swww" /\ t.has_swww
        \/ n = "swaybg" /\ t.has_swaybg}

\* The process ran to its end and exited with status 0.
ExitedZero(p) == p.outcome = "exit0"

\* The process could not be launched, or ran and exited with another status.
Failed(p) == p.outcome \in {"nolaunch", "exit1"}

\* The available tools a finished call has not launched.
Untried == Available(tools) \ {procs[k].tool : k \in 1..Len(procs)}

HyprlandSetDone ==
    pc = "done" /\ manager = "hyprland" /\ call.name = "set_wallpaper"

\* C17: a finished set_wallpaper of the Hyprland manager has launched
\* available tools only, in the order hyprpaper, swww, swaybg, each at most
\* once; every tool launched before the last one failed, so nothing is
\* launched after a success; a tool that ran and exited non-zero is followed
\* by the next available tool; and when the last tool launched exited with
\* status 0 the call returns Ok.
C17_OrderedFallback ==
    HyprlandSetDone =>
        /\ \A k \in 1..Len(procs) : procs[k].tool \in Available(tools)
        /\ \A j \in 1..Len(procs), k \in 1..Len(procs) :
              j < k => Rank(procs[j].tool) < Rank(procs[k].tool)
        /\ \A k \in 1..Len(procs) :
              /\ k < Len(procs) => Failed(procs[k])
              /\ \A a \in Available(tools) :
                    (Rank(a) < Rank(procs[k].tool)) => \E j \in 1..(k - 1) : procs[j].tool = a
              /\ (procs[k].outcome = "exit1"
                    /\ \E a \in Available(tools) : Rank(a) > Rank(procs[k].tool))
                 => k < Len(procs)
              /\ (k = Len(procs) /\ ExitedZero(procs[k])) => ret = OkUnit

\* C17's case: hyprpaper, swww and swaybg are all available, hyprpaper ran
\* and exited non-zero, swww was launched next and exited 0; the call
\* returned Ok and swaybg was not launched.
C17_Witness ==
    /\ HyprlandSetDone
    /\ tools = Tools(TRUE, TRUE, TRUE)
    /\ Len(procs) = 2
    /\ procs[1].tool = "hyprpaper"
    /\ procs[1].outcome = "exit1"
    /\ procs[2].tool = "swww"
    /\ ExitedZero(procs[2])
    /\ ret = OkUnit
    /\ Untried = {"swaybg"}

\* C18: a finished set_wallpaper of the Hyprland manager returns an error
\* only when every tool of the capability set has been launched and has
\* failed; no failure of one tool, a failure to launch included, is returned
\* while an available tool is untried.
C18_ErrorOnlyWhenExhausted ==
    (HyprlandSetDone /\ ret.tag = "Err") =>
        /\ Untried = {}
        /\ \A k \in 1..Len(procs) : Failed(procs[k])

\* C19: when set_wallpaper, of either manager, returns Ok, the last process
\* it launched, the tool the success is reported through, has run to its
\* end and exited with status 0.
C19_ExitStatusIsSuccess ==
    (pc = "done" /\ call.name = "set_wallpaper" /\ ret.tag = "Ok") =>
        /\ procs # <<>>
        /\ ExitedZero(procs[Len(procs)])

\* The path a launched query process reported for the call's screen: the
\* trimmed output of hyprctl, the matching line of swww; None when it failed
\* or reported nothing.
Reported(p) ==
    IF p.outcome # "exit0" THEN None
    ELSE IF p.tool = "hyprpaper"
        THEN (IF trim(p.out) = <<>> THEN None ELSE Some(trim(p.out)))
    ELSE swww_path(p.out, call.s2)

HyprlandGetDone ==
    pc = "done" /\ manager = "hyprland" /\ call.name = "get_wallpaper"

\* C20: a finished get_wallpaper of the Hyprland manager has consulted
\* hyprpaper before swww, and only available tools; it returns the path the
\* first of them reported; when neither reported a path it returns Ok(None)
\* if swaybg is in the capability set, and it returns an error only if
\* neither reported a path and swaybg is not in the capability set.
C20_GetWallpaper ==
    HyprlandGetDone =>
        LET yielding == {k \in 1..Len(procs) : Reported(procs[k]) # None} IN
        /\ \A k \in 1..Len(procs) : procs[k].tool \in Available(tools) \ {"swaybg"}
        /\ \A j \in 1..Len(procs), k \in 1..Len(procs) :
              j < k => Rank(procs[j].tool) < Rank(procs[k].tool)
        /\ yielding # {} =>
              /\ yielding = {Len(procs)}
              /\ ret = OkPath(Reported(procs[Len(procs)]))
        /\ (yielding = {} /\ tools.has_swaybg) => ret = OkPath(None)
        /\ ret.tag = "Err" => (yielding = {} /\ ~tools.has_swaybg)

\* WALLPAPER_TOOLS holds a value: the capability set has been probed.
Probed == tools # NoTools

\* The capability set in use is what the one probe that found a tool found;
\* every probe before it found none.
C21_Inv ==
    /\ \A k \in 1..Len(probes) : k < Len(probes) => probes[k] = NoTools
    /\ Probed => (probes # <<>> /\ probes[Len(probes)] = tools)
    /\ ~Probed => \A k \in 1..Len(probes) : probes[k] = NoTools

\* Once probed, no step probes again or changes the capability set, whatever
\* is installed by then; and a set or get call of the Hyprland manager
\* launches tools of that capability set only.
C21_Step ==
    /\ Probed => (tools' = tools /\ probes' = probes)
    /\ (manager = "hyprland" /\ call'.name \in {"set_wallpaper", "get_wallpaper"}
            /\ pc = "idle" /\ pc' = "done") =>
          \A k \in 1..Len(procs') : procs'[k].tool \in Available(tools)

\* C21: the capability set is probed successfully at most once per process:
\* after the probe that set it, its value never changes, later constructions
\* of the manager do not probe again, and the set and get calls use that
\* value even when tools have been installed or removed since.
C21_ProbedOnce == []C21_Inv /\ [][C21_Step]_vars

\* C21's case: a later get_wallpaper_manager has built a Hyprland manager on
\* a machine where a probe would now find other tools than the one probe
\* that ran found.
C21_Witness ==
    /\ pc = "done"
    /\ call.name = "get_wallpaper_manager"
    /\ ret = OkUnit
    /\ manager = "hyprland"
    /\ Len(probes) = 1
    /\ tools = probes[1]
    /\ tools # WallpaperTools_new(host)
    /\ WallpaperTools_new(host) # NoTools

\* The constructors the last get_wallpaper_manager called.
Constructed(log, what) ==
    \E k \in 1..Len(log) : log[k].how = "new" /\ log[k].tool = what

ManagerCall == pc = "idle" /\ pc' = "done" /\ call'.name = "get_wallpaper_manager"

\* A Hyprland manager exists only with a capability set that holds a tool.
C22_Inv == manager = "hyprland" => Available(tools) # {}

\* Constructing the Hyprland manager when no capability set is cached and
\* none of the three tools is installed, or the Plasma manager without
\* qdbus, panics and yields no manager; and every set or get call of the
\* Hyprland manager is made with a capability set that holds a tool.
C22_Step ==
    /\ (/\ ManagerCall
        /\ Constructed(procs', "hyprland")
        /\ ~Probed
        /\ host.installed \cap {"hyprpaper", "swww", "swaybg"} = {}) =>
          (ret' = Panic /\ manager' = manager /\ tools' = NoTools)
    /\ (ManagerCall /\ Constructed(procs', "plasma") /\ "qdbus" \notin host.installed) =>
          (ret' = Panic /\ manager' = manager)
    /\ (pc = "idle" /\ pc' = "done" /\ manager = "hyprland"
            /\ call'.name \in {"set_wallpaper", "get_wallpaper"}) =>
          Available(tools) # {}

\* C22: no manager exists with an empty capability set: construction with
\* no usable tool is a fatal error, so no set or get wallpaper call is made
\* with zero usable tools.
C22_NoEmptyBackend == []C22_Inv /\ [][C22_Step]_vars

\* C22's case: with XDG_CURRENT_DESKTOP naming Hyprland and none of the
\* three tools installed, get_wallpaper_manager has panicked in
\* HyprlandManager::new and no manager exists.
C22_Witness ==
    /\ pc = "done"
    /\ call.name = "get_wallpaper_manager"
    /\ to_lowercase(host.desktop) = Hyprland
    /\ Constructed(procs, "hyprland")
    /\ ret = Panic
    /\ manager = "none"
    /\ tools = NoTools

\* The tools the two backends need: none of them is installed.
ZeroBackendTools ==
    host.installed \cap {"hyprpaper", "swww", "swaybg", "qdbus"} = {}

NoSupportedDesktop == Err("DesktopEnv:NoSupportedDesktop")

\* C23: with no capability set cached and no backend tool installed,
\* get_wallpaper_manager returns the NoSupportedDesktop error value,
\* whatever XDG_CURRENT_DESKTOP holds.
C23_NoSupportedDesktop ==
    [][(ManagerCall /\ ~Probed /\ ZeroBackendTools) => ret' = NoSupportedDesktop]_vars

HyprlandAvailable == host.hypr_sig \/ "hyprctl" \in host.installed

PlasmaAvailable == host.kde_session

IsCheck(e, what, b) ==
    e.tool = what /\ e.how = "is_available" /\ e.outcome = (IF b THEN "true" ELSE "false")

IsNew(e, what) == e.tool = what /\ e.how = "new"

\* The manager a constructor call leaves: the one constructed, unless the
\* constructor panicked.
Selects(what) ==
    /\ IsNew(procs'[Len(procs')], what)
    /\ ret' \in {OkUnit, Panic}
    /\ ret' = OkUnit => manager' = what

C24_Step ==
    ManagerCall =>
        LET hint == to_lowercase(host.desktop)
        IN  IF hint = Hyprland THEN Len(procs') = 1 /\ Selects("hyprland")
            ELSE IF hint \in {Kde, Plasma} THEN Len(procs') = 1 /\ Selects("plasma")
            ELSE /\ Len(procs') >= 2
                 /\ IsCheck(procs'[1], "hyprland", HyprlandAvailable)
                 /\ IF HyprlandAvailable THEN Len(procs') = 2 /\ Selects("hyprland")
                    ELSE /\ IsCheck(procs'[2], "plasma", PlasmaAvailable)
                         /\ IF PlasmaAvailable THEN Len(procs') = 3 /\ Selects("plasma")
                            ELSE Len(procs') = 2 /\ ret' = NoSupportedDesktop
                                    /\ manager' = manager

\* C24: a hint that names a backend, compared case-insensitively, selects
\* that backend with no availability check; any other hint, or none, checks
\* Hyprland then Plasma and selects the first available, and the result is
\* NoSupportedDesktop when neither is available.
C24_Selection == [][C24_Step]_vars

\* C24's case: XDG_CURRENT_DESKTOP names Hyprland in mixed case on a machine
\* where Hyprland is not available, and the Hyprland manager was constructed
\* without any availability check.
C24_Witness ==
    /\ pc = "done"
    /\ call.name = "get_wallpaper_manager"
    /\ host.desktop # to_lowercase(host.desktop)
    /\ to_lowercase(host.desktop) = Hyprland
    /\ ~HyprlandAvailable
    /\ procs = <<Step("hyprland", "new", "ok")>>
    /\ ret = OkUnit
    /\ manager = "hyprland"

GetScreensDone ==
    pc = "idle" /\ pc' = "done" /\ call'.name = "get_screens"

\* The screen names an enumeration tool printed, in its order.
Names(l) == filter_map_name(l.items)

\* Output that holds a list of screens.
Parsable(l) == l.kind = "array"

Returned(r) == CHOOSE v \in r.path : TRUE

\* C25: get_screens returns exactly <<"default">> when the enumeration tool
\* could not be run or its output holds no list of screens, and otherwise
\* the tool's screen names in the tool's order.
C25_GetScreens ==
    [][GetScreensDone =>
        LET e == procs'[1] IN
        /\ ret'.tag = "Screens"
        /\ Returned(ret') =
            (IF e.outcome = "nolaunch" \/ ~Parsable(e.out) THEN DefaultScreen
             ELSE Names(e.out))]_vars

PlasmaNotifyDone ==
    pc = "idle" /\ pc' = "done" /\ call'.name = "notify" /\ manager = "plasma"

Ran(log, what, outcomes) ==
    \E k \in 1..Len(log) : log[k].tool = what /\ log[k].outcome \in outcomes

\* C26: the Plasma notification succeeds when kdialog ran and exited zero;
\* when kdialog is absent, cannot be launched or exits non-zero the generic
\* notifier is tried, and the call fails only if that one fails too.
C26_NotifyFallback ==
    [][PlasmaNotifyDone =>
        IF Ran(procs', "kdialog", {"exit0"}) THEN ret' = OkUnit
        ELSE /\ Ran(procs', "notify_rust", Sent)
             /\ ret' = OkUnit <=> Ran(procs', "notify_rust", {"ok"})
             /\ ret' # OkUnit => ret'.tag = "Err"]_vars

\* The extra day both entry points step back while the UTC hour is before 5.
ExtraDay(now) == IF now.hour < 5 THEN 1 ELSE 0

GetImageByDate ==
    pc = "idle" /\ pc' = "done" /\ call'.name = "get_image" /\ ~call'.random

RangeStarts == pc = "idle" /\ pc' = "range" /\ call'.name = "download_range"

C27_Step ==
    /\ GetImageByDate =>
        LET target == UtcDate(call'.now) - call'.n - ExtraDay(call'.now) IN
        /\ \E k \in 1..Len(io') : ListsDate(io'[k], target)
        /\ \A k \in 1..Len(io') :
            /\ IsList(io'[k]) => ListsDate(io'[k], target)
            /\ IsGet(io'[k]) => GetsDate(io'[k], target)
    /\ RangeStarts => LocalDate(call'.now) - loc'.start = ExtraDay(call'.now)
    /\ (pc = "range" /\ loc.i = 0 /\ Len(io') > Len(io)) =>
        ListsDate(io'[Len(io) + 1], LocalDate(call.now) - ExtraDay(call.now))

\* C27: get_image with random = false looks up and requests the UTC date
\* minus the offset, minus one more day exactly when the UTC hour is before
\* 5; download_range steps its anchor back by one day exactly when the UTC
\* hour is before 5, and its first lookup is for that anchor.
C27_Cutover == [][C27_Step]_vars

\* C27's case: get_image with offset 1 called at 04:00 UTC has looked up
\* the day two days before the UTC date.
C27_Witness ==
    /\ pc = "done"
    /\ call.name = "get_image"
    /\ ~call.random
    /\ call.n = 1
    /\ call.now.hour = 4
    /\ \E k \in 1..Len(io) : ListsDate(io[k], UtcDate(call.now) - 2)

\* The requests issued and not yet resolved after the first k events.
InFlight(log, k) ==
    Cardinality({j \in 1..k : log[j].ev = "send"})
        - Cardinality({j \in 1..k : log[j].ev = "recv"})

\* At every moment of a call at most one request is in flight, and none is
\* while the workflow stands between two dates or has returned.
C28_Inv ==
    /\ \A k \in 0..Len(io) : InFlight(io, k) \in {0, 1}
    /\ pc \in {"idle", "range", "span", "get_image", "done"} => InFlight(io, Len(io)) = 0

\* C28: the acquisition workflows issue their requests one after the other:
\* at most one request is in flight, and the requests of one date have
\* resolved before any request of the next date is issued.
C28_Sequential ==
    /\ []C28_Inv
    /\ [][\A k \in Len(io) + 1..Len(io') :
            (Len(io') > Len(io) /\ nops' = nops /\ io'[k].ev = "send"
                /\ io'[k].arg.ev = "get") => InFlight(io, Len(io)) = 0]_vars

\* C28's case: download_range is waiting for the metadata of its second
\* date, after the two requests of its first date were issued and resolved.
C28_Witness ==
    /\ pc = "await_metadata"
    /\ call.name = "download_range"
    /\ loc.i = 1
    /\ Cardinality({j \in 1..Len(io) : io[j].ev = "send"}) = 3
    /\ InFlight(io, Len(io)) = 1

\* The positions of main's calls of op in its log.
Ops(log, op) == {k \in 1..Len(log) : log[k].op = op}

\* C29: main composes its run sequentially: every get_image has returned
\* before the first set_wallpaper is called, and once a get_image has
\* returned an error no set_wallpaper is called and no notification sent.
C29_AcquireThenApply ==
    LET l == wrun.log IN
    /\ \A g \in Ops(l, "get_image"), a \in Ops(l, "set_wallpaper") : g < a
    /\ (\E g \in Ops(l, "get_image") : l[g].tag # "Ok") =>
          (Ops(l, "set_wallpaper") = {} /\ Ops(l, "notify") = {})

\* C29's case: a run over two screens has acquired two images, set both
\* wallpapers and sent its notification.
C29_Witness ==
    /\ Len(wrun.screens) = 2
    /\ Cardinality(Ops(wrun.log, "get_image")) >= 2
    /\ Cardinality(Ops(wrun.log, "set_wallpaper")) = 2
    /\ Ops(wrun.log, "notify") # {}

\* C30: in a multi-monitor run the images acquired for the screens are
\* pairwise distinct, with and without random.
C30_DistinctImages ==
    \A i, j \in 1..Len(wrun.image_paths) :
        i # j => wrun.image_paths[i] # wrun.image_paths[j]

\* get_wallpaper_manager has failed in this run.
ResolutionFailed(l) ==
    \E k \in Ops(l, "get_wallpaper_manager") : l[k].tag # "Ok"

\* A run whose get_wallpaper_manager failed has ended with that failure, and
\* made no call after it.
C31_Inv ==
    LET l == wrun.log IN
    ResolutionFailed(l) =>
        /\ wrun.at = "exit"
        /\ l[Len(l)].op = "get_wallpaper_manager"
        /\ wrun.result.tag = l[Len(l)].tag /\ wrun.result.kind = l[Len(l)].kind
        /\ Ops(l, "get_image") = {} /\ Ops(l, "get_screens") = {}
        /\ Ops(l, "set_wallpaper") = {} /\ Ops(l, "notify") = {}
        /\ \A k \in Ops(l, "config_save") : k < Len(l)

\* The step in which get_wallpaper_manager fails, and every step of the run
\* after it, leaves the folder as it is and issues no request.
C31_Step ==
    ResolutionFailed(wrun'.log) =>
        /\ files' = files
        /\ folderExists' = folderExists
        /\ io' = io

\* C31: when get_wallpaper_manager fails the wallpaper run ends with that
\* failure before any image acquisition (no directory created, no request),
\* any wallpaper operation and any rewrite of the configuration.
C31_ResolutionFatal == []C31_Inv /\ [][C31_Step]_vars

\* C31's case: on a machine with no supported desktop the run has ended with
\* get_wallpaper_manager's NoSupportedDesktop error.
C31_Witness ==
    /\ wrun.at = "exit"
    /\ ResolutionFailed(wrun.log)
    /\ wrun.result = NoSupportedDesktop

\* C32: the persisted configuration is written only by the save that ends
\* a run, and never in a run with --use-config: a config_save entry is the
\* last call of a run without --use-config.
C32_ConfigWrittenOnlyAtEnd ==
    LET l == wrun.log IN
    \A k \in Ops(l, "config_save") :
        /\ ~wrun.args.use_config
        /\ k = Len(l)
        /\ wrun.at = "exit"

\* C33: download_range's anchor is never later than the UTC date of the
\* instant it is computed at, whatever the local zone.
C33_AnchorNotAfterUtc ==
    [][RangeStarts => loc'.start <= UtcDate(call'.now)]_vars

\* C34: get_screens returns at least one screen, whatever the enumeration
\* tool printed.
C34_ScreensNeverEmpty ==
    [][GetScreensDone => (ret'.tag = "Screens" /\ Returned(ret') # <<>>)]_vars

\* C35: a run sends its notification only after at least one set_wallpaper
\* of that run has succeeded.
C35_NotifyOnlyAfterSet ==
    LET l == wrun.log IN
    \A n \in Ops(l, "notify") :
        \E a \in Ops(l, "set_wallpaper") : a < n /\ l[a].tag = "Ok"

\* This step is a get_image call of main's acquisition loop.
GetImageCall ==
    /\ wrun.at = "acquire"
    /\ Len(wrun'.log) = Len(wrun.log) + 1
    /\ wrun'.log[Len(wrun'.log)].op = "get_image"

\* The k-th get_image of a run is called with offset k - 1, below
\* max_offset, and only while a screen is still without an image.
C36_Step ==
    GetImageCall =>
        /\ call'.n = Cardinality(Ops(wrun.log, "get_image"))
        /\ call'.n < max_offset
        /\ Len(wrun.image_paths) < Len(wrun.screens)

\* A run makes at most max_offset get_image calls, collects at most one
\* image per screen, and sets at most as many wallpapers as it has images.
C36_Inv ==
    /\ Cardinality(Ops(wrun.log, "get_image")) <= max_offset
    /\ Len(wrun.image_paths) <= Len(wrun.screens)
    /\ Cardinality(Ops(wrun.log, "set_wallpaper")) <= Len(wrun.image_paths)

\* C36: main's acquisition loop terminates: it calls get_image at most
\* max_offset times, with the offsets 0, 1, 2, .. each once, stops as soon
\* as every screen has an image, and sets no wallpaper for a screen beyond
\* the images collected.
C36_LoopTerminates ==
    /\ []C36_Inv
    /\ [][C36_Step]_vars

\* C36's case: the loop has run through every offset without collecting an
\* image for each screen, and has ended.
C36_Witness ==
    /\ wrun.at # "acquire"
    /\ wrun.offset = max_offset
    /\ Cardinality(Ops(wrun.log, "get_image")) = max_offset
    /\ Len(wrun.image_paths) < Len(wrun.screens)

\* This step is a get_cached_tooltip call that returned.
TooltipReturned ==
    call'.name = "get_cached_tooltip" /\ nops' = nops + 1 /\ tray'.out # None

\* The wallpaper path of the cached entry.
CachedPath(t) == (CHOOSE c \in t.cache : TRUE).wallpaper_path

C37_Step ==
    TooltipReturned =>
        LET current == CHOOSE q \in ret'.path : TRUE IN
        /\ tray'.refreshed <=>
              (tray.cache = None \/ CachedPath(tray) # current \/ tray.age > 300)
        /\ tray'.cache # None
        /\ CachedPath(tray') = current
        /\ tray'.out = Some((CHOOSE c \in tray'.cache : TRUE).tooltip)
        /\ IF tray'.refreshed THEN tray'.age = 0
           ELSE tray'.cache = tray.cache /\ tray'.age = tray.age

\* C37: get_cached_tooltip rebuilds the cached entry exactly when there is
\* none, the current wallpaper differs from the cached path, or the entry is
\* older than 300 seconds; after every call that returns the cache holds an
\* entry for the current wallpaper and the tooltip returned is that entry's.
C37_TooltipCache == [][C37_Step]_vars

\* C37's case: a call made when the entry was exactly 300 seconds old, for
\* the same wallpaper, has answered from the cache without rebuilding it.
C37_Witness ==
    /\ call.name = "get_cached_tooltip"
    /\ tray.out # None
    /\ ~tray.refreshed
    /\ tray.age = 300

\* The index hovered_image holds lies within the image list.
C38_Inv ==
    gui.hovered_image # None =>
        (CHOOSE h \in gui.hovered_image : TRUE) \in 0..(Len(gui.images) - 1)

C38_Step ==
    (gui.images # <<>> /\ gui'.last.type = "KeyPressed") =>
        LET total == Len(gui.images)
            idx == unwrap_or(gui.hovered_image, 0)
            per_row == gui.images_per_row
            key == gui'.last.arg
        IN  /\ gui'.images = gui.images
            /\ key = "ArrowRight" => gui'.hovered_image = Some((idx + 1) % total)
            /\ key = "ArrowLeft" => gui'.hovered_image = Some((idx + total - 1) % total)
            /\ key = "ArrowDown" =>
                gui'.hovered_image =
                    Some(IF idx + per_row > total - 1 THEN total - 1 ELSE idx + per_row)
            /\ key = "ArrowUp" =>
                gui'.hovered_image = Some(IF idx - per_row < 0 THEN 0 ELSE idx - per_row)
            /\ key \notin {"ArrowRight", "ArrowLeft", "ArrowDown", "ArrowUp"} =>
                gui'.hovered_image = gui.hovered_image
            /\ gui'.selected # None =>
                /\ key = "Enter"
                /\ gui.hovered_image # None
                /\ idx < total
                /\ gui'.selected = Some(gui.images[idx + 1].path)

\* C38: in the switcher, hovered_image never holds an index outside the image
\* list, and a key pressed on a non-empty list moves it as stated: ArrowRight
\* and ArrowLeft wrap around modulo the number of images, ArrowDown stops at
\* the last index, ArrowUp stops at 0, any other key leaves it, and Enter
\* selects only the image at the hovered, in-bounds index.
C38_HoveredInBounds == []C38_Inv /\ [][C38_Step]_vars

\* C38's case: ArrowDown in a window four images wide holding three images
\* has stopped at the last index.
C38_Witness ==
    /\ gui.last = [type |-> "KeyPressed", arg |-> "ArrowDown"]
    /\ Len(gui.images) = 3
    /\ gui.images_per_row = 4
    /\ gui.hovered_image = Some(2)

C39_Inv == gui.show_theme_selector => gui.show_top_bar

C39_Step ==
    /\ (gui.show_top_bar /\ ~gui'.show_top_bar) => ~gui'.show_theme_selector
    /\ gui'.last.type = "ThemeChanged" => ~gui'.show_theme_selector

\* C39: with the messages the view emits (the Alt key, the Theme button while
\* the top bar is shown, Cancel and the theme buttons while the selector is
\* shown) the theme selector is open only while the top bar is shown, a step
\* that hides the top bar leaves the selector closed, and ThemeChanged leaves
\* it closed.
C39_SelectorUnderTopBar == []C39_Inv /\ [][C39_Step]_vars

\* C39's case: a theme was chosen in the selector, which closed it and left
\* the top bar shown.
C39_Witness ==
    /\ gui.last = [type |-> "ThemeChanged", arg |-> "Light"]
    /\ gui.theme = "Light"
    /\ gui.show_top_bar
    /\ ~gui.show_theme_selector

\* Every entry carries what the task of its own path returned.
C40_Inv ==
    (gui.at # "loading" /\ gui.tasks = {}) =>
        /\ Cardinality(gui.produced) = Len(gui.images)
        /\ \A i \in 1..Len(gui.images) :
            <<gui.images[i].path, gui.images[i].thumbnail>> \in gui.produced

C40_Step ==
    gui'.last.type = "ThumbnailReady" =>
        /\ Len(gui'.images) = Len(gui.images)
        /\ \A i \in 1..Len(gui.images) :
            /\ gui'.images[i].path = gui.images[i].path
            /\ gui.images[i].path # gui'.last.arg => gui'.images[i] = gui.images[i]
            /\ gui.images[i].path = gui'.last.arg =>
                <<gui'.last.arg, gui'.images[i].thumbnail>> \in gui'.produced \ gui.produced

\* C40: the thumbnail tasks started by ImagesLoaded end in any order; each
\* ThumbnailReady(path, thumb) sets the thumbnail of the entry with that path
\* to thumb and leaves every other entry and the order of the list as they
\* were, so when no task is left every entry carries the result of the task
\* of its own path.
C40_ThumbnailsByPath == []C40_Inv /\ [][C40_Step]_vars

\* C40's case: three tasks have ended, the one of the first entry last, one
\* of them without a thumbnail.
C40_Witness ==
    /\ gui.tasks = {}
    /\ Len(gui.images) = 3
    /\ gui.last = [type |-> "ThumbnailReady", arg |-> gui.images[1].path]
    /\ gui.images[1].thumbnail = Some(Thumb(gui.images[1].path))
    /\ gui.images[2].thumbnail = None
    /\ gui.images[3].thumbnail = Some(Thumb(gui.images[3].path))

====
